---- MODULE Spec2Model ----
(***************************************************************************)
(* Model of the configuration-driven MongoDB query builder                 *)
(* (src/query-builder.ts) and of its schema validator (src/validation.ts). *)
(*                                                                         *)
(* JavaScript values are tagged records:                                   *)
(*   [t |-> "undefined"]  [t |-> "null"]  [t |-> "num", n |-> 0]           *)
(*   [t |-> "bool", b |-> FALSE]  [t |-> "str", s |-> "x"]                 *)
(*   [t |-> "date", d |-> 1]                                               *)
(*   [t |-> "obj", m |-> (function from property names to values)]         *)
(*   [t |-> "arr", a |-> (sequence of values)]                             *)
(* and, for what a property path reaches from these, the built-in          *)
(* functions, the prototype objects of their constructors and the numbers  *)
(* that are no integers:                                                   *)
(*   [t |-> "function", kind |-> "method", of |-> "String", name |-> "at"] *)
(*   [t |-> "proto", of |-> "String"]  [t |-> "real", s |-> "NaN"]         *)
(* A configuration, a condition node, the data bag and the filter document *)
(* are all values of this kind, as they are in the program.  The built-in  *)
(* objects are those of Node.js 22, the time zone is UTC.                  *)
(*                                                                         *)
(* The last part models QueryConfigManager (src/query-config-manager.ts):  *)
(* store is its MongoDB collection, a function from configuration names to *)
(* documents, and cache its Map, a function from names to the objects it   *)
(* holds; objects gives each object its present value.  written records,   *)
(* for each name, the last save or delete of it that completed, and        *)
(* operations the calls made to a manager whose operations overlap: their  *)
(* number and the bag of those in progress, each one sent to the           *)
(* collection or answered by it.                                           *)
(***************************************************************************)
EXTENDS Integers, Sequences, FiniteSets, Bags, TLC

VARIABLES config, data, result, calls, store, cache, cacheEnabled, written,
          operations, objects

vars == <<config, data, result, calls, store, cache, cacheEnabled, written,
          operations, objects>>

\* The state of a QueryConfigManager and of its collection, and the writes
\* made through it.
manager == <<store, cache, cacheEnabled, written, operations, objects>>

-----------------------------------------------------------------------------
(* JavaScript values                                                       *)

Undef == [t |-> "undefined"]
Null == [t |-> "null"]
Num(n) == [t |-> "num", n |-> n]
Bool(b) == [t |-> "bool", b |-> b]
Str(s) == [t |-> "str", s |-> s]
Date(d) == [t |-> "date", d |-> d]
Obj(m) == [t |-> "obj", m |-> m]
Arr(a) == [t |-> "arr", a |-> a]

\* A number that is no integer of the model (NaN, an infinity, a constant
\* of Number), by the string String(v) gives for it.
Real(s) == [t |-> "real", s |-> s]

EmptyMap == [k \in {} |-> Undef]
EmptyObj == Obj(EmptyMap)

\* What a thrown exception leaves in place of a value.
Thrown(e) == [t |-> "throw", e |-> e]
IsThrown(v) == v.t = "throw"

\* JavaScript truthiness (ToBoolean).
Truthy(v) ==
    CASE v.t = "undefined" -> FALSE
      [] v.t = "null" -> FALSE
      [] v.t = "num" -> v.n # 0
      [] v.t = "real" -> v.s # "NaN"
      [] v.t = "bool" -> v.b
      [] v.t = "str" -> v.s # ""
      [] OTHER -> TRUE

IsNullish(v) == v.t \in {"undefined", "null"}

\* The built-in functions a property path can reach from a value: the
\* constructor named name, the function a constructor has as its property
\* name (String.fromCharCode), the function its prototype object has
\* (String.prototype.trim).  name is the name property of the function.
Fun(name) == [t |-> "function", kind |-> "constructor", of |-> name, name |-> name]
Static(of, name) == [t |-> "function", kind |-> "static", of |-> of, name |-> name]
Method(of, name) == [t |-> "function", kind |-> "method", of |-> of, name |-> name]

\* The prototype object of the constructor named of (String.prototype).
Proto(of) == [t |-> "proto", of |-> of]

\* typeof v is neither 'object' nor 'function', or v is null.
IsPrimitive(v) == v.t \in {"undefined", "null", "num", "real", "bool", "str"}

\* typeof v === 'function': Function.prototype is itself a function.
IsCallable(v) == v.t = "function" \/ v = Proto("Function")

\* o has the own property k (a key of a plain object).
HasKey(o, k) == o.t = "obj" /\ k \in DOMAIN o.m

\* String(n) for an integer n.
NumberString(n) == ToString(n)

\* The positions of a sequence that the property name k denotes: k is an
\* array index when it is the canonical decimal numeral of one ("0", "1",
\* "10"), so there is one position at most.
Indexed(seq, k) == { i \in 1..Len(seq) : NumberString(i - 1) = k }

\* The functions the built-in prototype objects have as own properties,
\* each with its length (the number of its declared parameters).
ObjectPrototype ==
    [ hasOwnProperty |-> 1, isPrototypeOf |-> 1, propertyIsEnumerable |-> 1,
      toLocaleString |-> 0, toString |-> 0, valueOf |-> 0,
      __defineGetter__ |-> 2, __defineSetter__ |-> 2,
      __lookupGetter__ |-> 1, __lookupSetter__ |-> 1 ]
FunctionPrototype == [ apply |-> 2, bind |-> 1, call |-> 1, toString |-> 0 ]
StringPrototype ==
    [ anchor |-> 1, at |-> 1, big |-> 0, blink |-> 0, bold |-> 0, charAt |-> 1,
      charCodeAt |-> 1, codePointAt |-> 1, concat |-> 1, endsWith |-> 1, fixed |-> 0,
      fontcolor |-> 1, fontsize |-> 1, includes |-> 1, indexOf |-> 1,
      isWellFormed |-> 0, italics |-> 0, lastIndexOf |-> 1, link |-> 1,
      localeCompare |-> 1, match |-> 1, matchAll |-> 1, normalize |-> 0,
      padEnd |-> 1, padStart |-> 1, repeat |-> 1, replace |-> 2, replaceAll |-> 2,
      search |-> 1, slice |-> 2, small |-> 0, split |-> 2, startsWith |-> 1,
      strike |-> 0, sub |-> 0, substr |-> 2, substring |-> 2, sup |-> 0,
      toLocaleLowerCase |-> 0, toLocaleUpperCase |-> 0, toLowerCase |-> 0,
      toString |-> 0, toUpperCase |-> 0, toWellFormed |-> 0, trim |-> 0,
      trimEnd |-> 0, trimLeft |-> 0, trimRight |-> 0, trimStart |-> 0, valueOf |-> 0 ]
NumberPrototype ==
    [ toExponential |-> 1, toFixed |-> 1, toLocaleString |-> 0, toPrecision |-> 1,
      toString |-> 1, valueOf |-> 0 ]
BooleanPrototype == [ toString |-> 0, valueOf |-> 0 ]
ArrayPrototype ==
    [ at |-> 1, concat |-> 1, copyWithin |-> 2, entries |-> 0, every |-> 1, fill |-> 1,
      filter |-> 1, find |-> 1, findIndex |-> 1, findLast |-> 1, findLastIndex |-> 1,
      flat |-> 0, flatMap |-> 1, forEach |-> 1, includes |-> 1, indexOf |-> 1,
      join |-> 1, keys |-> 0, lastIndexOf |-> 1, map |-> 1, pop |-> 0, push |-> 1,
      reduce |-> 1, reduceRight |-> 1, reverse |-> 0, shift |-> 0, slice |-> 2,
      some |-> 1, sort |-> 1, splice |-> 2, toLocaleString |-> 0, toReversed |-> 0,
      toSorted |-> 1, toSpliced |-> 2, toString |-> 0, unshift |-> 1, values |-> 0,
      with |-> 2 ]
DatePrototype ==
    [ getDate |-> 0, getDay |-> 0, getFullYear |-> 0, getHours |-> 0,
      getMilliseconds |-> 0, getMinutes |-> 0, getMonth |-> 0, getSeconds |-> 0,
      getTime |-> 0, getTimezoneOffset |-> 0, getUTCDate |-> 0, getUTCDay |-> 0,
      getUTCFullYear |-> 0, getUTCHours |-> 0, getUTCMilliseconds |-> 0,
      getUTCMinutes |-> 0, getUTCMonth |-> 0, getUTCSeconds |-> 0, getYear |-> 0,
      setDate |-> 1, setFullYear |-> 3, setHours |-> 4, setMilliseconds |-> 1,
      setMinutes |-> 3, setMonth |-> 2, setSeconds |-> 2, setTime |-> 1,
      setUTCDate |-> 1, setUTCFullYear |-> 3, setUTCHours |-> 4,
      setUTCMilliseconds |-> 1, setUTCMinutes |-> 3, setUTCMonth |-> 2,
      setUTCSeconds |-> 2, setYear |-> 1, toDateString |-> 0, toGMTString |-> 0,
      toISOString |-> 0, toJSON |-> 1, toLocaleDateString |-> 0,
      toLocaleString |-> 0, toLocaleTimeString |-> 0, toString |-> 0,
      toTimeString |-> 0, toUTCString |-> 0, valueOf |-> 0 ]

Prototypes ==
    [ Object |-> ObjectPrototype, Function |-> FunctionPrototype,
      String |-> StringPrototype, Number |-> NumberPrototype,
      Boolean |-> BooleanPrototype, Array |-> ArrayPrototype, Date |-> DatePrototype ]

\* The functions the constructors have as own properties, with their
\* lengths, and the lengths of the constructors themselves.
Statics ==
    [ Object |->
          [ assign |-> 2, create |-> 2, defineProperties |-> 2, defineProperty |-> 3,
            entries |-> 1, freeze |-> 1, fromEntries |-> 1,
            getOwnPropertyDescriptor |-> 2, getOwnPropertyDescriptors |-> 1,
            getOwnPropertyNames |-> 1, getOwnPropertySymbols |-> 1,
            getPrototypeOf |-> 1, groupBy |-> 2, hasOwn |-> 2, is |-> 2,
            isExtensible |-> 1, isFrozen |-> 1, isSealed |-> 1, keys |-> 1,
            preventExtensions |-> 1, seal |-> 1, setPrototypeOf |-> 2, values |-> 1 ],
      Function |-> EmptyMap,
      String |-> [ fromCharCode |-> 1, fromCodePoint |-> 1, raw |-> 1 ],
      Number |->
          [ isFinite |-> 1, isInteger |-> 1, isNaN |-> 1, isSafeInteger |-> 1,
            parseFloat |-> 1, parseInt |-> 2 ],
      Boolean |-> EmptyMap,
      Array |-> [ from |-> 1, fromAsync |-> 1, isArray |-> 1, of |-> 0 ],
      Date |-> [ now |-> 0, parse |-> 1, UTC |-> 7 ] ]

Constructors ==
    [ Object |-> 1, Function |-> 1, String |-> 1, Number |-> 1, Boolean |-> 1,
      Array |-> 1, Date |-> 7 ]

\* The constants of Number, as String prints them.
NumberConstants ==
    [ EPSILON |-> "2.220446049250313e-16", MAX_SAFE_INTEGER |-> "9007199254740991",
      MAX_VALUE |-> "1.7976931348623157e+308", MIN_SAFE_INTEGER |-> "-9007199254740991",
      MIN_VALUE |-> "5e-324", NaN |-> "NaN", NEGATIVE_INFINITY |-> "-Infinity",
      POSITIVE_INFINITY |-> "Infinity" ]

\* The name of the function a prototype has under the property name k:
\* trimLeft, trimRight and toGMTString are second names of trimStart,
\* trimEnd and toUTCString.
FunctionName(k) ==
    CASE k = "trimLeft" -> "trimStart"
      [] k = "trimRight" -> "trimEnd"
      [] k = "toGMTString" -> "toUTCString"
      [] OTHER -> k

\* f.length of a built-in function.
Length(f) ==
    CASE f.kind = "constructor" -> Constructors[f.name]
      [] f.kind = "static" -> Statics[f.of][f.name]
      [] OTHER -> Prototypes[f.of][f.name]

\* The constructor of a value that is neither undefined nor null: the one
\* whose prototype object the value has as its prototype; the constructor
\* property of a prototype object names its own constructor.
Constructor(o) ==
    CASE o.t = "str" -> "String"
      [] o.t \in {"num", "real"} -> "Number"
      [] o.t = "bool" -> "Boolean"
      [] o.t = "arr" -> "Array"
      [] o.t = "date" -> "Date"
      [] o.t = "function" -> "Function"
      [] o.t = "proto" -> o.of
      [] OTHER -> "Object"

\* The own property names of a value: the keys of a plain object, the
\* indices and the length of an array or of a string, length and name of
\* a function and what a constructor has beside them, the properties of
\* a prototype object.
Own(o) ==
    CASE o.t = "obj" -> DOMAIN o.m
      [] o.t = "arr" -> {"length"} \cup { NumberString(i - 1) : i \in 1..Len(o.a) }
      [] o.t = "str" -> {"length"} \cup { NumberString(i - 1) : i \in 1..Len(o.s) }
      [] o.t = "function" /\ o.kind = "constructor" ->
             {"length", "name", "prototype"} \cup DOMAIN Statics[o.name]
             \cup (IF o.name = "Number" THEN DOMAIN NumberConstants ELSE {})
      [] o.t = "function" /\ o.kind # "constructor" -> {"length", "name"}
      [] o.t = "proto" ->
             {"constructor"} \cup DOMAIN Prototypes[o.of]
             \cup CASE o.of = "Object" -> {"__proto__"}
                    [] o.of = "Function" -> {"length", "name", "caller", "arguments"}
                    [] o.of \in {"String", "Array"} -> {"length"}
                    [] OTHER -> {}
      [] OTHER -> {}

\* The prototype objects on the chain of a value: the prototype of its
\* constructor and Object.prototype; a prototype object has
\* Object.prototype, which has none.
Chain(o) ==
    IF o.t = "proto" THEN (IF o.of = "Object" THEN {} ELSE {"Object"})
    ELSE {Constructor(o), "Object"}

\* The names a value inherits from its prototype chain.
Inherited(o) == UNION { Own(Proto(p)) : p \in Chain(o) }

\* `k in o` for a value o that is not a primitive: own and inherited
\* properties alike.
In(k, o) == k \in Own(o) \cup Inherited(o)

\* s.charAt(i - 1)
CharAt(s, i) == SubSeq(s, i, i)

\* The value of the own property k of o.  caller and arguments of
\* Function.prototype are accessors that throw a TypeError, __proto__ of
\* Object.prototype an accessor that gives its prototype, null.
OwnProp(o, k) ==
    CASE o.t = "obj" -> o.m[k]
      [] o.t = "arr" /\ k = "length" -> Num(Len(o.a))
      [] o.t = "arr" /\ k # "length" -> o.a[CHOOSE i \in Indexed(o.a, k) : TRUE]
      [] o.t = "str" /\ k = "length" -> Num(Len(o.s))
      [] o.t = "str" /\ k # "length" -> Str(CharAt(o.s, CHOOSE i \in Indexed(o.s, k) : TRUE))
      [] o.t = "function" /\ k = "length" -> Num(Length(o))
      [] o.t = "function" /\ k = "name" -> Str(o.name)
      [] o.t = "function" /\ k = "prototype" -> Proto(o.name)
      [] o.t = "function" /\ k \in DOMAIN NumberConstants -> Real(NumberConstants[k])
      [] o.t = "function" /\ k \notin {"length", "name", "prototype"}
                          /\ k \notin DOMAIN NumberConstants -> Static(o.name, k)
      [] o.t = "proto" /\ k = "constructor" -> Fun(o.of)
      [] o.t = "proto" /\ k = "__proto__" -> Null
      [] o.t = "proto" /\ k \in {"caller", "arguments"} -> Thrown("TypeError")
      [] o.t = "proto" /\ k = "length" -> Num(0)
      [] o.t = "proto" /\ k = "name" -> Str("")
      [] o.t = "proto" /\ k \notin {"constructor", "__proto__", "caller", "arguments",
                                    "length", "name"} -> Method(o.of, FunctionName(k))

\* The value o[k] finds on the prototype chain of o: __proto__ is the
\* accessor of Object.prototype and gives the prototype of o; any other
\* name is read from the first prototype object that has it.
InheritedProp(o, k) ==
    IF k = "__proto__" THEN Proto(IF o.t = "proto" THEN "Object" ELSE Constructor(o))
    ELSE IF o.t # "proto" /\ k \in Own(Proto(Constructor(o)))
         THEN OwnProp(Proto(Constructor(o)), k)
    ELSE OwnProp(Proto("Object"), k)

\* o[k] for a value o that is neither undefined nor null: an own property,
\* or one found on the prototype chain, or undefined; a TypeError where
\* the property is an accessor that throws.
GetProp(o, k) ==
    IF k \in Own(o) THEN OwnProp(o, k)
    ELSE IF k \in Inherited(o) THEN InheritedProp(o, k)
    ELSE Undef

\* o?.[k]
OptProp(o, k) == IF IsNullish(o) THEN Undef ELSE GetProp(o, k)

\* The own enumerable properties of a value, as Object.assign,
\* Object.entries and Object.keys see them: the keys of a plain object,
\* the elements of an array, the characters of a string; the properties
\* of the built-in objects are not enumerable.
Enumerable(o) ==
    CASE o.t = "obj" -> o.m
      [] o.t = "arr" -> [k \in { NumberString(i - 1) : i \in 1..Len(o.a) } |-> OwnProp(o, k)]
      [] o.t = "str" -> [k \in { NumberString(i - 1) : i \in 1..Len(o.s) } |-> OwnProp(o, k)]
      [] OTHER -> EmptyMap

\* n as two digits, and as four.
TwoDigits(n) == (IF n < 10 THEN "0" ELSE "") \o NumberString(n)
FourDigits(n) ==
    (IF n < 10 THEN "000" ELSE IF n < 100 THEN "00" ELSE IF n < 1000 THEN "0" ELSE "")
    \o NumberString(n)

\* The civil date of the day `days` days after 1970-01-01: year, month
\* (1 to 12) and day of the month, in the proleptic Gregorian calendar.
CivilOf(era, doe, yoe) ==
    [ y |-> yoe + era * 400,
      doy |-> doe - (365 * yoe + yoe \div 4 - yoe \div 100) ]
CivilDay(y, doy, mp) ==
    [ year |-> y + (IF mp < 10 THEN 0 ELSE 1),
      month |-> IF mp < 10 THEN mp + 3 ELSE mp - 9,
      day |-> doy - (153 * mp + 2) \div 5 + 1 ]
CivilYear(c) == CivilDay(c.y, c.doy, (5 * c.doy + 2) \div 153)
CivilEra(era, doe) ==
    CivilYear(CivilOf(era, doe,
                      (doe - doe \div 1460 + doe \div 36524 - doe \div 146096) \div 365))
Civil(days) ==
    CivilEra((days + 719468) \div 146097, (days + 719468) % 146097)

DayNames == <<"Sun", "Mon", "Tue", "Wed", "Thu", "Fri", "Sat">>
MonthNames ==
    <<"Jan", "Feb", "Mar", "Apr", "May", "Jun", "Jul", "Aug", "Sep", "Oct", "Nov", "Dec">>

\* "Thu Jan 01 1970 00:00:00" for the day and the second of the day.
DateTimeString(days, c, secs) ==
    DayNames[((days + 4) % 7) + 1] \o " " \o MonthNames[c.month] \o " "
    \o TwoDigits(c.day) \o " " \o FourDigits(c.year) \o " "
    \o TwoDigits(secs \div 3600) \o ":" \o TwoDigits((secs % 3600) \div 60) \o ":"
    \o TwoDigits(secs % 60)

\* new Date(d).toString() for d milliseconds after the epoch, in the UTC
\* time zone.
DateString(d) ==
    DateTimeString(d \div 86400000, Civil(d \div 86400000), (d % 86400000) \div 1000)
    \o " GMT+0000 (Coordinated Universal Time)"

RECURSIVE KeyThrows(_)
RECURSIVE PropertyKey(_)

\* String(v) throws a TypeError: Date.prototype has the toString of dates
\* and is no date; a plain object whose own toString is no function is
\* asked for its valueOf, and what it inherits returns the object itself;
\* an array is joined from the strings of its elements.  An own toString
\* or valueOf that is a function is called, and is outside the model.
KeyThrows(v) ==
    CASE v.t = "proto" -> v.of = "Date"
      [] v.t = "arr" ->
             \E i \in 1..Len(v.a) : ~IsNullish(v.a[i]) /\ KeyThrows(v.a[i])
      [] v.t = "obj" /\ "toString" \notin DOMAIN v.m -> FALSE
      [] v.t = "obj" /\ "toString" \in DOMAIN v.m /\ ~IsCallable(v.m["toString"])
                     /\ "valueOf" \notin DOMAIN v.m -> TRUE
      [] v.t = "obj" /\ "toString" \in DOMAIN v.m /\ ~IsCallable(v.m["toString"])
                     /\ "valueOf" \in DOMAIN v.m /\ ~IsCallable(v.m["valueOf"]) -> TRUE
      [] v.t \notin {"proto", "arr", "obj"} -> FALSE

\* a.join(','): undefined and null elements give the empty string.
RECURSIVE Join(_)
Join(a) ==
    IF a = <<>> THEN ""
    ELSE (IF IsNullish(Head(a)) THEN "" ELSE PropertyKey(Head(a)))
         \o (IF Len(a) > 1 THEN "," \o Join(Tail(a)) ELSE "")

\* String(v), where it does not throw: the property key a value is
\* coerced to in { [v]: ... } and o[v].  String.prototype, Number.prototype
\* and Boolean.prototype are wrappers of '', 0 and false, Array.prototype
\* is an empty array and Function.prototype a function without a name.
PropertyKey(v) ==
    CASE v.t = "str" -> v.s
      [] v.t = "undefined" -> "undefined"
      [] v.t = "null" -> "null"
      [] v.t = "num" -> NumberString(v.n)
      [] v.t = "real" -> v.s
      [] v.t = "bool" -> IF v.b THEN "true" ELSE "false"
      [] v.t = "arr" -> Join(v.a)
      [] v.t = "date" -> DateString(v.d)
      [] v.t = "function" -> "function " \o v.name \o "() { [native code] }"
      [] v.t = "proto" /\ v.of \in {"String", "Array"} -> ""
      [] v.t = "proto" /\ v.of = "Number" -> "0"
      [] v.t = "proto" /\ v.of = "Boolean" -> "false"
      [] v.t = "proto" /\ v.of = "Function" -> "function () { [native code] }"
      [] v.t = "proto" /\ v.of = "Object" -> "[object Object]"
      [] v.t = "obj" /\ "toString" \notin DOMAIN v.m -> "[object Object]"

\* The keys an assignment target[k] = v can add to an object created by
\* {}: an assignment to __proto__ goes to the setter the object inherits,
\* which changes the prototype or does nothing, and adds no key.
Assignable(keys) == keys \ {"__proto__"}

\* target[k] = v on the property map.
SetProp(target, k, v) ==
    [x \in DOMAIN target \cup Assignable({k}) |-> IF x = k THEN v ELSE target[x]]

\* Object.assign(target, source) on the property maps: an assignment per
\* key of the source.
Assign(target, source) ==
    [k \in DOMAIN target \cup Assignable(DOMAIN source) |->
        IF k \in Assignable(DOMAIN source) THEN source[k] ELSE target[k]]

\* $set of the fields of a document of the collection.
SetFields(doc, fields) ==
    [k \in DOMAIN doc \cup DOMAIN fields |->
        IF k \in DOMAIN fields THEN fields[k] ELSE doc[k]]

\* const o = {}; o[k] = v
Created(k, v) == Obj(SetProp(EmptyMap, k, v))

\* Object.keys(o).length
NumKeys(o) == Cardinality(DOMAIN Enumerable(o))

\* { [k]: v }
Single(k, v) == Obj([x \in {k} |-> v])

\* o with o[k] = v
With(o, k, v) == Obj([x \in DOMAIN o.m \cup {k} |-> IF x = k THEN v ELSE o.m[x]])

\* o without the key k
Without(o, k) == Obj([x \in DOMAIN o.m \ {k} |-> o.m[x]])


-----------------------------------------------------------------------------
(* Strings                                                                 *)

\* s.indexOf('.') !== -1
RECURSIVE HasDot(_)
HasDot(s) ==
    IF Len(s) = 0 THEN FALSE
    ELSE IF SubSeq(s, 1, 1) = "." THEN TRUE
    ELSE HasDot(SubSeq(s, 2, Len(s)))

\* s.split('.'): the segments between the dots, empty segments kept.
RECURSIVE SplitFrom(_, _)
SplitFrom(s, cur) ==
    IF Len(s) = 0 THEN <<cur>>
    ELSE IF SubSeq(s, 1, 1) = "." THEN <<cur>> \o SplitFrom(SubSeq(s, 2, Len(s)), "")
    ELSE SplitFrom(SubSeq(s, 2, Len(s)), cur \o SubSeq(s, 1, 1))

Split(s) == SplitFrom(s, "")

\* typeof v === 'string' && v.startsWith('$')
StartsWithDollar(v) == v.t = "str" /\ Len(v.s) >= 1 /\ SubSeq(v.s, 1, 1) = "$"

\* v.substring(1)
Substring1(s) == SubSeq(s, 2, Len(s))

-----------------------------------------------------------------------------
(* src/validation.ts: the zod schemas                                      *)

ARRAY_MIN == 1

STRING_MIN == 1

\* z.object(...) takes any input whose typeof is 'object' and that is
\* neither null nor an array (zod 4), and reads the keys of its shape from
\* it; an input without a key fails where the shape requires the key.
\* Function.prototype is a function and Array.prototype an array.
IsObjectInput(v) ==
    v.t \in {"obj", "date"} \/ (v.t = "proto" /\ v.of \notin {"Function", "Array"})

\* z.array(...) takes what Array.isArray accepts; Array.prototype is an
\* array without elements.
IsArrayInput(v) == v.t = "arr" \/ v = Proto("Array")
Items(v) == IF v.t = "arr" THEN v.a ELSE <<>>

\* z.record(...) takes what zod's isPlainObject accepts: an object whose
\* constructor property is undefined, or has a prototype property that is
\* an object with an own isPrototypeOf.  A constructor property that is
\* null has no properties to read, and the check throws a TypeError.
IsPlainObject(v) ==
    /\ IsObjectInput(v)
    /\ \/ GetProp(v, "constructor") = Undef
       \/ /\ GetProp(v, "constructor") # Null
          /\ IsObjectInput(GetProp(GetProp(v, "constructor"), "prototype"))
          /\ "isPrototypeOf" \in Own(GetProp(GetProp(v, "constructor"), "prototype"))

PlainObjectThrows(v) == IsObjectInput(v) /\ GetProp(v, "constructor") = Null

\* z.string()
IsString(v) == v.t = "str"

\* z.string().min(1)
IsNonEmptyString(v) == v.t = "str" /\ Len(v.s) >= STRING_MIN

\* z.union([z.date(), z.string()]).optional()
IsOptionalDateOrString(v) == v.t \in {"undefined", "date", "str"}

\* z.enum(['$eq', ..., '$size'])
OperatorSchema(v) ==
    /\ v.t = "str"
    /\ v.s \in { "$eq", "$ne", "$gt", "$gte", "$lt", "$lte", "$in", "$nin",
                 "$and", "$or", "$not", "$nor", "$exists", "$type", "$regex",
                 "$all", "$elemMatch", "$size" }

\* A variant whose operator must be one of the enum (no z.string()).
FieldConditionSchema_EnumOnly(v) ==
    /\ IsObjectInput(v)
    /\ IsNonEmptyString(GetProp(v, "field"))
    /\ OperatorSchema(GetProp(v, "operator"))

\* z.object({ field: z.string().min(1),
\*            operator: z.union([OperatorSchema, z.string()]),
\*            value: z.any() }): unknown keys are let through.
FieldConditionSchema(v) ==
    /\ IsObjectInput(v)
    /\ IsNonEmptyString(GetProp(v, "field"))
    /\ OperatorSchema(GetProp(v, "operator")) \/ IsString(GetProp(v, "operator"))

\* z.object({ field, from?, to? }).strict(): unknown keys, those
\* Object.keys gives, are refused.
DateRangeConditionSchema(v) ==
    /\ IsObjectInput(v)
    /\ IsNonEmptyString(GetProp(v, "field"))
    /\ IsOptionalDateOrString(GetProp(v, "from"))
    /\ IsOptionalDateOrString(GetProp(v, "to"))
    /\ DOMAIN Enumerable(v) \subseteq {"field", "from", "to"}

RECURSIVE QueryConditionSchema(_)
\* z.object({ operator: z.enum(['$and', '$or', '$nor']),
\*            conditions: z.array(QueryConditionSchema).min(1) })
LogicalConditionSchema(v) ==
    /\ IsObjectInput(v)
    /\ GetProp(v, "operator") \in {Str("$and"), Str("$or"), Str("$nor")}
    /\ IsArrayInput(GetProp(v, "conditions"))
    /\ Len(Items(GetProp(v, "conditions"))) >= ARRAY_MIN
    /\ \A i \in 1..Len(Items(GetProp(v, "conditions"))) :
           QueryConditionSchema(Items(GetProp(v, "conditions"))[i])

\* z.union([FieldConditionSchema, LogicalConditionSchema, DateRangeConditionSchema])
QueryConditionSchema(v) ==
    \/ FieldConditionSchema(v)
    \/ LogicalConditionSchema(v)
    \/ DateRangeConditionSchema(v)

\* z.record(z.string(), z.any()).optional(): any value under any key.
IsOptionalRecord(v) == v.t = "undefined" \/ IsPlainObject(v)

\* z.record(z.string(), z.string()).optional(): the values under the own
\* keys of the input, __proto__ left out, are strings.
IsOptionalStringRecord(v) ==
    \/ v.t = "undefined"
    \/ IsPlainObject(v) /\ \A k \in Own(v) \ {"__proto__"} : IsString(GetProp(v, k))

\* z.array(QueryConditionSchema).optional()
IsOptionalConditionArray(v) ==
    \/ v.t = "undefined"
    \/ IsArrayInput(v) /\ \A i \in 1..Len(Items(v)) : QueryConditionSchema(Items(v)[i])

\* z.array(DateRangeConditionSchema).optional()
IsOptionalDateRangeArray(v) ==
    \/ v.t = "undefined"
    \/ IsArrayInput(v) /\ \A i \in 1..Len(Items(v)) : DateRangeConditionSchema(Items(v)[i])

\* QueryConfigSchema.safeParse(v).success
QueryConfigSchema(v) ==
    /\ IsObjectInput(v)
    /\ IsOptionalRecord(GetProp(v, "staticFilters"))
    /\ IsOptionalConditionArray(GetProp(v, "conditions"))
    /\ IsOptionalStringRecord(GetProp(v, "fieldMappings"))
    /\ IsOptionalDateRangeArray(GetProp(v, "dateRanges"))

\* Parsing throws a TypeError, whatever else is wrong with the input, when
\* one of the two records has a constructor property that is null.
SchemaThrows(v) ==
    /\ IsObjectInput(v)
    /\ \/ PlainObjectThrows(GetProp(v, "staticFilters"))
       \/ PlainObjectThrows(GetProp(v, "fieldMappings"))

\* A variant that checks the types of the four stages and not the nodes
\* of the conditions tree or the entries of dateRanges.
validateConfig_StagesOnly(c) ==
    IF SchemaThrows(c) THEN "TypeError"
    ELSE IF /\ IsObjectInput(c)
            /\ IsOptionalRecord(GetProp(c, "staticFilters"))
            /\ IsArrayInput(GetProp(c, "conditions")) \/ GetProp(c, "conditions") = Undef
            /\ IsOptionalStringRecord(GetProp(c, "fieldMappings"))
            /\ IsArrayInput(GetProp(c, "dateRanges")) \/ GetProp(c, "dateRanges") = Undef
    THEN "ok" ELSE "ZodError"

\* validateConfig returns normally ("ok") or throws: a ZodError for an
\* input the schema refuses, a TypeError out of the schema's own checks.
validateConfig(c) ==
    IF SchemaThrows(c) THEN "TypeError"
    ELSE IF QueryConfigSchema(c) THEN "ok" ELSE "ZodError"

-----------------------------------------------------------------------------
(* src/query-builder.ts                                                    *)

EQ == "$eq"
GTE == "$gte"
LTE == "$lte"
AND == "$and"
OR == "$or"
NOR == "$nor"

\* [Operator.AND, Operator.OR, Operator.NOR].includes(operator)
isLogicalOperator(operator) == operator \in {Str(AND), Str(OR), Str(NOR)}

\* for (const key of keys) { if (current == null) return undefined;
\*                           current = current[key]; }
\* A read that throws ends the loop.
RECURSIVE Traverse(_, _)
Traverse(current, keys) ==
    IF keys = <<>> \/ IsThrown(current) THEN current
    ELSE IF IsNullish(current) THEN Undef
    ELSE Traverse(GetProp(current, Head(keys)), Tail(keys))

\* obj[path] for a path that is no string: the key is String(path).
Index(obj, path) ==
    IF KeyThrows(path) THEN Thrown("TypeError") ELSE GetProp(obj, PropertyKey(path))

\* The path is a string wherever the schema checked it.  In a node the
\* schema did not reach it is any value: an array, Array.prototype and
\* String.prototype have an indexOf and no split; a value without an
\* indexOf that is a function makes the call throw a TypeError.  An own
\* indexOf of a plain object that is a function is called, and is outside
\* the model.
getNestedValue(obj, path) ==
    IF ~Truthy(path) \/ ~Truthy(obj) THEN Undef
    ELSE CASE path.t = "str" ->
                  IF ~HasDot(path.s) THEN GetProp(obj, path.s)
                  ELSE Traverse(obj, Split(path.s))
           [] path.t = "arr" ->
                  IF \A i \in 1..Len(path.a) : path.a[i] # Str(".")
                  THEN Index(obj, path)
                  ELSE Thrown("TypeError")
           [] path.t = "proto" /\ path.of \in {"String", "Array"} -> Index(obj, path)
           [] path.t = "proto" /\ path.of \notin {"String", "Array"} -> Thrown("TypeError")
           [] path.t \notin {"str", "arr", "proto"}
              /\ ~IsCallable(GetProp(path, "indexOf")) -> Thrown("TypeError")

\* a || b
OrElse(a, b) == IF Truthy(a) THEN a ELSE b

\* The four returns of buildDateRange, by the bounds it resolved;
\* dateQuery[condition.field] = ... throws where String(field) does.
DateRange(f, from, to) ==
    IF ~Truthy(from) /\ ~Truthy(to) THEN Null
    ELSE IF KeyThrows(f) THEN Thrown("TypeError")
    ELSE IF Truthy(from) /\ Truthy(to)
         THEN Created(PropertyKey(f),
                      Obj([k \in {GTE, LTE} |-> IF k = GTE THEN from ELSE to]))
    ELSE IF Truthy(from) THEN Created(PropertyKey(f), Single(GTE, from))
    ELSE Created(PropertyKey(f), Single(LTE, to))

buildDateRange(condition, rangeData) ==
    DateRange(GetProp(condition, "field"),
              OrElse(OptProp(rangeData, "from"), GetProp(condition, "from")),
              OrElse(OptProp(rangeData, "to"), GetProp(condition, "to")))

\* let value = condition.value; a reference ('$' + path) is resolved
\* against the data.
ResolvedValue(value, d) ==
    IF StartsWithDollar(value) THEN getNestedValue(d, Str(Substring1(value.s)))
    ELSE value

\* { [field]: value } for $eq, { [field]: { [operator]: value } } otherwise;
\* a computed key throws where String of it does.
FieldCondition(f, operator, value) ==
    IF KeyThrows(f) THEN Thrown("TypeError")
    ELSE IF operator = Str(EQ) THEN Single(PropertyKey(f), value)
    ELSE IF KeyThrows(operator) THEN Thrown("TypeError")
    ELSE Single(PropertyKey(f), Single(PropertyKey(operator), value))

\* A variant that skips every falsy value (if (!value) return null).
FieldConditionOf_SkipsFalsy(condition, isRef, value) ==
    IF IsThrown(value) THEN value
    ELSE IF isRef /\ ~Truthy(value) THEN Null
    ELSE FieldCondition(GetProp(condition, "field"), GetProp(condition, "operator"), value)

buildFieldCondition_SkipsFalsy(condition, d) ==
    FieldConditionOf_SkipsFalsy(condition, StartsWithDollar(GetProp(condition, "value")),
                                ResolvedValue(GetProp(condition, "value"), d))

\* A variant without the special case for $eq.
FieldConditionOf_WrapsEq(condition, isRef, value) ==
    IF IsThrown(value) THEN value
    ELSE IF isRef /\ IsNullish(value) THEN Null
    ELSE IF KeyThrows(GetProp(condition, "field")) \/ KeyThrows(GetProp(condition, "operator"))
         THEN Thrown("TypeError")
    ELSE Single(PropertyKey(GetProp(condition, "field")),
                Single(PropertyKey(GetProp(condition, "operator")), value))

buildFieldCondition_WrapsEq(condition, d) ==
    FieldConditionOf_WrapsEq(condition, StartsWithDollar(GetProp(condition, "value")),
                             ResolvedValue(GetProp(condition, "value"), d))

\* The returns of buildFieldCondition: what the lookup of a reference
\* throws, null for a reference that resolved to undefined or null, the
\* condition otherwise.
FieldConditionOf(condition, isRef, value) ==
    IF IsThrown(value) THEN value
    ELSE IF isRef /\ IsNullish(value) THEN Null
    ELSE FieldCondition(GetProp(condition, "field"), GetProp(condition, "operator"), value)

buildFieldCondition(condition, d) ==
    FieldConditionOf(condition, StartsWithDollar(GetProp(condition, "value")),
                     ResolvedValue(GetProp(condition, "value"), d))

RECURSIVE processCondition(_, _)

\* for (const x of v): an array gives its elements and a string its
\* characters, Array.prototype and String.prototype are an empty array
\* and an empty string; any other value of the model is not iterable and
\* the loop throws a TypeError.
IsIterable(v) == v.t \in {"arr", "str"} \/ v \in {Proto("Array"), Proto("String")}
Iterated(v) ==
    CASE v.t = "arr" -> v.a
      [] v.t = "str" -> [i \in 1..Len(v.s) |-> Str(SubSeq(v.s, i, i))]
      [] OTHER -> <<>>

\* One round of the loop of buildLogicalCondition, given what the later
\* rounds give: if (built && Object.keys(built).length > 0) push(built).
PushedBuilt(built, rest) ==
    IF IsThrown(built) THEN built
    ELSE IF IsThrown(rest) THEN rest
    ELSE IF Truthy(built) /\ NumKeys(built) > 0 THEN Arr(<<built>> \o rest.a)
    ELSE rest

\* The loop of buildLogicalCondition: the array of the results that are
\* non-null and have a key, in order; a throw inside the loop ends it.
RECURSIVE BuiltConditions(_, _)
BuiltConditions(subs, d) ==
    IF subs = <<>> THEN Arr(<<>>)
    ELSE PushedBuilt(processCondition(Head(subs), d), BuiltConditions(Tail(subs), d))

\* for (const subCondition of condition.conditions!): the results of the
\* loop over what the conditions iterate to.
LoopOver(subs, d) ==
    IF ~IsIterable(subs) THEN Thrown("TypeError") ELSE BuiltConditions(Iterated(subs), d)

\* A variant that collapses a single survivor whatever the operator.
LogicalCondition_CollapsesAny(operator, builtConditions) ==
    IF IsThrown(builtConditions) THEN builtConditions
    ELSE IF Len(builtConditions.a) = 0 THEN Null
    ELSE IF Len(builtConditions.a) = 1 THEN builtConditions.a[1]
    ELSE Single(PropertyKey(operator), builtConditions)

buildLogicalCondition_CollapsesAny(condition, d) ==
    LogicalCondition_CollapsesAny(GetProp(condition, "operator"),
                                  LoopOver(GetProp(condition, "conditions"), d))

\* A variant without the early return for an empty list of results.
LogicalCondition_KeepsEmpty(operator, builtConditions) ==
    IF IsThrown(builtConditions) THEN builtConditions
    ELSE IF Len(builtConditions.a) = 1 /\ operator = Str(AND) THEN builtConditions.a[1]
    ELSE Single(PropertyKey(operator), builtConditions)

buildLogicalCondition_KeepsEmpty(condition, d) ==
    LogicalCondition_KeepsEmpty(GetProp(condition, "operator"),
                                LoopOver(GetProp(condition, "conditions"), d))

\* A variant whose loop puts each result before the earlier ones (unshift
\* for push).
Reversed(a) == [i \in 1..Len(a) |-> a[Len(a) + 1 - i]]

LogicalCondition_Unshifts(operator, builtConditions) ==
    IF IsThrown(builtConditions) THEN builtConditions
    ELSE IF Len(builtConditions.a) = 0 THEN Null
    ELSE IF Len(builtConditions.a) = 1 /\ operator = Str(AND) THEN builtConditions.a[1]
    ELSE Single(PropertyKey(operator), Arr(Reversed(builtConditions.a)))

buildLogicalCondition_Unshifts(condition, d) ==
    LogicalCondition_Unshifts(GetProp(condition, "operator"),
                              LoopOver(GetProp(condition, "conditions"), d))

\* A variant that keeps the group of a single result whatever the operator.
LogicalCondition_NeverCollapses(operator, builtConditions) ==
    IF IsThrown(builtConditions) THEN builtConditions
    ELSE IF Len(builtConditions.a) = 0 THEN Null
    ELSE Single(PropertyKey(operator), builtConditions)

buildLogicalCondition_NeverCollapses(condition, d) ==
    LogicalCondition_NeverCollapses(GetProp(condition, "operator"),
                                    LoopOver(GetProp(condition, "conditions"), d))

\* The returns of buildLogicalCondition after its loop: null for no
\* result, a single result of $and by itself, the group otherwise.  The
\* operator is one of the three strings isLogicalOperator found.
LogicalCondition(operator, builtConditions) ==
    IF IsThrown(builtConditions) THEN builtConditions
    ELSE IF Len(builtConditions.a) = 0 THEN Null
    ELSE IF Len(builtConditions.a) = 1 /\ operator = Str(AND) THEN builtConditions.a[1]
    ELSE Single(PropertyKey(operator), builtConditions)

buildLogicalCondition(condition, d) ==
    LogicalCondition(GetProp(condition, "operator"),
                     LoopOver(GetProp(condition, "conditions"), d))

\* buildDateRange(condition, rangeData) after the lookup of rangeData,
\* which throws for a field that has no indexOf.
DateRangeWith(condition, rangeData) ==
    IF IsThrown(rangeData) THEN rangeData ELSE buildDateRange(condition, rangeData)

\* A variant that looks for from and to before the operator.
processCondition_RangeFirst(condition, d) ==
    IF IsPrimitive(condition) THEN Thrown("TypeError")
    ELSE IF In("from", condition) \/ In("to", condition)
         THEN DateRangeWith(condition, getNestedValue(d, GetProp(condition, "field")))
    ELSE IF In("operator", condition)
            /\ isLogicalOperator(GetProp(condition, "operator"))
         THEN buildLogicalCondition(condition, d)
    ELSE buildFieldCondition(condition, d)

\* `'operator' in condition` throws a TypeError when the node is a
\* primitive; an array or a date has none of the three keys and is
\* compiled as a field condition.
processCondition(condition, d) ==
    IF IsPrimitive(condition) THEN Thrown("TypeError")
    ELSE IF In("operator", condition)
            /\ isLogicalOperator(GetProp(condition, "operator"))
         THEN buildLogicalCondition(condition, d)
    ELSE IF In("from", condition) \/ In("to", condition)
         THEN DateRangeWith(condition, getNestedValue(d, GetProp(condition, "field")))
    ELSE buildFieldCondition(condition, d)

\* One round of the loop of buildConditions, given what the later rounds
\* give: if (result) andConditions.push(result).
Pushed(built, rest) ==
    IF IsThrown(built) THEN built
    ELSE IF IsThrown(rest) THEN rest
    ELSE IF Truthy(built) THEN Arr(<<built>> \o rest.a)
    ELSE rest

\* The loop of buildConditions: the array of the results that are non-null,
\* in order; a throw inside the loop ends it.
RECURSIVE AndConditions(_, _)
AndConditions(conditions, d) ==
    IF conditions = <<>> THEN Arr(<<>>)
    ELSE Pushed(processCondition(Head(conditions), d), AndConditions(Tail(conditions), d))

\* A variant that reduces by the number of declared nodes.
Conditions_ByDeclared(conditions, andConditions) ==
    IF IsThrown(andConditions) THEN andConditions
    ELSE IF Len(andConditions.a) = 0 THEN EmptyObj
    ELSE IF Len(conditions) = 1 THEN andConditions.a[1]
    ELSE Single(AND, andConditions)

buildConditions_ByDeclared(conditions, d) ==
    Conditions_ByDeclared(conditions, AndConditions(conditions, d))

\* A variant that merges the results into one document instead of
\* listing them under $and.
RECURSIVE AssignAll(_)
AssignAll(docs) ==
    IF docs = <<>> THEN EmptyMap
    ELSE Assign(Head(docs).m, AssignAll(Tail(docs)))

Conditions_Merges(andConditions) ==
    IF IsThrown(andConditions) THEN andConditions
    ELSE IF Len(andConditions.a) = 1 THEN andConditions.a[1]
    ELSE IF Len(andConditions.a) > 1 THEN Obj(AssignAll(andConditions.a))
    ELSE EmptyObj

buildConditions_Merges(conditions, d) == Conditions_Merges(AndConditions(conditions, d))

\* The returns of buildConditions after its loop: the single result by
\* itself, several under $and, {} for none.
Conditions(andConditions) ==
    IF IsThrown(andConditions) THEN andConditions
    ELSE IF Len(andConditions.a) = 1 THEN andConditions.a[1]
    ELSE IF Len(andConditions.a) > 1 THEN Single(AND, andConditions)
    ELSE EmptyObj

buildConditions(conditions, d) == Conditions(AndConditions(conditions, d))

\* The values the loop of applyFieldMappings looks up, by the key of the
\* mapping: Object.entries(mappings) gives the own enumerable properties.
MappedValues(mappings, d) ==
    [f \in DOMAIN Enumerable(mappings) |-> getNestedValue(d, Enumerable(mappings)[f])]

\* A variant that copies only truthy values (if (value)).
MappingsApplied_SkipsFalsy(query, values) ==
    IF \E f \in DOMAIN values : IsThrown(values[f]) THEN Thrown("TypeError")
    ELSE Obj([k \in DOMAIN query.m \cup
                    {f \in Assignable(DOMAIN values) : Truthy(values[f])} |->
                 IF k \in Assignable(DOMAIN values) /\ Truthy(values[k])
                 THEN values[k] ELSE query.m[k]])

applyFieldMappings_SkipsFalsy(query, mappings, d) ==
    MappingsApplied_SkipsFalsy(query, MappedValues(mappings, d))

\* The query after the loop of applyFieldMappings: query[field] = value
\* for every value that is neither undefined nor null; a lookup that
\* throws ends the call.
MappingsApplied(query, values) ==
    IF \E f \in DOMAIN values : IsThrown(values[f]) THEN Thrown("TypeError")
    ELSE Obj([k \in DOMAIN query.m \cup
                    {f \in Assignable(DOMAIN values) : ~IsNullish(values[f])} |->
                 IF k \in Assignable(DOMAIN values) /\ ~IsNullish(values[k])
                 THEN values[k] ELSE query.m[k]])

applyFieldMappings(query, mappings, d) == MappingsApplied(query, MappedValues(mappings, d))

\* if (dateQuery) Object.assign(query, dateQuery)
Assigned(query, dateQuery) ==
    IF IsThrown(dateQuery) THEN dateQuery
    ELSE IF Truthy(dateQuery) THEN Obj(Assign(query.m, dateQuery.m))
    ELSE query

\* The query after the date ranges are applied, in order; a throw inside
\* the loop ends it.
RECURSIVE applyDateRanges(_, _, _)
applyDateRanges(query, dateRanges, d) ==
    IF dateRanges = <<>> \/ IsThrown(query) THEN query
    ELSE applyDateRanges(
             Assigned(query, DateRangeWith(Head(dateRanges),
                                           getNestedValue(d, GetProp(Head(dateRanges), "field")))),
             Tail(dateRanges), d)

\* What a caller holds before any call: no result.
NoResult == [op |-> "none"]

\* A variant that keeps one query object for all the calls: the keys of
\* the document returned last are still in it.
query0_Reused(previous) ==
    IF previous.op = "build" /\ previous.value.t = "obj" THEN previous.value
    ELSE EmptyObj

\* const query: Record<string, any> = {}: the object the stages start
\* from, whatever the previous call returned.
query0(previous) == EmptyObj

\* The four stages of build on the query, each with the truthiness test
\* that guards it; a stage that throws ends the call.
WithStaticFilters(query, staticFilters) ==
    IF Truthy(staticFilters) THEN Obj(Assign(query.m, Enumerable(staticFilters)))
    ELSE query

WithFieldMappings(query, fieldMappings, d) ==
    IF Truthy(fieldMappings) THEN applyFieldMappings(query, fieldMappings, d) ELSE query

WithDateRanges(query, dateRanges, d) ==
    IF IsThrown(query) THEN query
    ELSE IF Truthy(dateRanges) THEN applyDateRanges(query, Iterated(dateRanges), d)
    ELSE query

\* if (Object.keys(conditionsQuery).length > 0) Object.assign(query, ...)
WithConditionsQuery(query, conditionsQuery) ==
    IF IsThrown(conditionsQuery) THEN conditionsQuery
    ELSE IF NumKeys(conditionsQuery) > 0
         THEN Obj(Assign(query.m, Enumerable(conditionsQuery)))
    ELSE query

\* if (config.conditions && config.conditions.length > 0)
WithConditions(query, conditions, d) ==
    IF IsThrown(query) THEN query
    ELSE IF Truthy(conditions) /\ Len(Iterated(conditions)) > 0
         THEN WithConditionsQuery(query, buildConditions(Iterated(conditions), d))
    ELSE query

\* data: T = {} as T
DataOrDefault(d) == IF d = Undef THEN EmptyObj ELSE d

\* The first three stages of build: what the query object holds when the
\* conditions are compiled.
beforeConditions(previous, c, d) ==
    WithDateRanges(
        WithFieldMappings(
            WithStaticFilters(query0(previous), GetProp(c, "staticFilters")),
            GetProp(c, "fieldMappings"), d),
        GetProp(c, "dateRanges"), d)

\* QueryBuilder.build after validation.
buildStages(previous, c, d) ==
    WithConditions(beforeConditions(previous, c, d), GetProp(c, "conditions"), d)

\* QueryBuilder.build, called after a call that gave the result previous:
\* the filter document, or what it throws.  A data bag that is undefined
\* takes the default of the parameter, {}.
buildAfter(previous, c, d) ==
    IF validateConfig(c) # "ok" THEN Thrown(validateConfig(c))
    ELSE buildStages(previous, c, DataOrDefault(d))

\* QueryBuilder.build as a first call.
build(c, d) == buildAfter(NoResult, c, d)

\* The objects build can write into: one it creates, or one of the
\* caller's.
NewObject == "new"
StaticFiltersObject == "config.staticFilters"

\* A variant that starts from the caller's static filters
\* (const query = config.staticFilters || {}).
QueryObject_StaticFilters(c) ==
    IF Truthy(GetProp(c, "staticFilters")) THEN StaticFiltersObject ELSE NewObject

\* const query: Record<string, any> = {}: every write of the four stages
\* (Object.assign(query, ...), query[field] = value) goes to this object;
\* the sub-documents, dateQuery, builtConditions and andConditions are
\* created by the builders themselves.
QueryObject(c) == NewObject

\* What the loop of applyFieldMappings has written into the query when it
\* ends: every value, or, when a lookup throws, the values of the entries
\* that came before it.  Object.entries gives the entries in the order the
\* keys were inserted; a value of the model has its keys in no order and
\* stands for the objects of every order, so any of the other entries may
\* have come before the one that threw.
MappingsWritten(query, values) ==
    IF \A f \in DOMAIN values : ~IsThrown(values[f])
    THEN { MappingsApplied(query, values) }
    ELSE { MappingsApplied(query, [f \in before |-> values[f]]) :
               before \in SUBSET { f \in DOMAIN values : ~IsThrown(values[f]) } }

\* What the loop of applyDateRanges has written into the query when it
\* ends: the ranges before the one whose lookup or builder throws have
\* been assigned.
RECURSIVE DateRangesWritten(_, _, _)
DateRangesWritten(query, dateRanges, d) ==
    IF dateRanges = <<>> THEN query
    ELSE IF IsThrown(applyDateRanges(query, <<Head(dateRanges)>>, d)) THEN query
    ELSE DateRangesWritten(applyDateRanges(query, <<Head(dateRanges)>>, d),
                           Tail(dateRanges), d)

\* What the query object holds when build ends, the field mappings
\* applied without a throw: the document; or, when the date ranges throw,
\* what the ranges before the throw made of it; or, when buildConditions
\* throws, what the first three stages made of it (its result is assigned
\* only after it returns).
LastWritten(mapped, ranged, built, dateRanges, d) ==
    IF ~IsThrown(built) THEN built
    ELSE IF ~IsThrown(ranged) THEN ranged
    ELSE IF Truthy(dateRanges) THEN DateRangesWritten(mapped, Iterated(dateRanges), d)
    ELSE mapped

\* The objects the query object can be when build(c, d) ends, returning
\* or throwing, for a configuration the validation accepts: one object,
\* unless a lookup of the field mappings throws.
WrittenAfter(filters, mapped, c, d) ==
    IF IsThrown(mapped)
    THEN MappingsWritten(filters, MappedValues(GetProp(c, "fieldMappings"), d))
    ELSE { LastWritten(mapped, WithDateRanges(mapped, GetProp(c, "dateRanges"), d),
                       buildStages(NoResult, c, d), GetProp(c, "dateRanges"), d) }

Written(c, d) ==
    WrittenAfter(WithStaticFilters(EmptyObj, GetProp(c, "staticFilters")),
                 WithFieldMappings(WithStaticFilters(EmptyObj, GetProp(c, "staticFilters")),
                                   GetProp(c, "fieldMappings"), DataOrDefault(d)),
                 c, DataOrDefault(d))

\* The configuration objects the call build(c, d) can leave: the writes to
\* the query land in the configuration when the query object is one of its
\* own.  A call that throws in validation has written nothing.
configAfterBuild(c, d) ==
    IF QueryObject(c) = NewObject \/ validateConfig(c) # "ok" THEN {c}
    ELSE { With(c, "staticFilters", w) : w \in Written(c, d) }

\* The helper constructors of the module.
field(f, operator, value) ==
    Obj([k \in {"field", "operator", "value"} |->
            CASE k = "field" -> Str(f)
              [] k = "operator" -> Str(operator)
              [] OTHER -> value])

and(conditions) ==
    Obj([k \in {"operator", "conditions"} |->
            IF k = "operator" THEN Str(AND) ELSE Arr(conditions)])

or(conditions) ==
    Obj([k \in {"operator", "conditions"} |->
            IF k = "operator" THEN Str(OR) ELSE Arr(conditions)])

nor(conditions) ==
    Obj([k \in {"operator", "conditions"} |->
            IF k = "operator" THEN Str(NOR) ELSE Arr(conditions)])

dateRange(f, from, to) ==
    Obj([k \in {"field", "from", "to"} |->
            CASE k = "field" -> Str(f)
              [] k = "from" -> from
              [] OTHER -> to])

-----------------------------------------------------------------------------
(* The inputs: configurations and data bags                                *)

\* The nesting depth of the logical groups of the condition trees.
MaxDepth == 2

\* A configuration with the stages given (undefined: the stage is absent).
Config(staticFilters, fieldMappings, dateRanges, conditions) ==
    LET all == [k \in {"staticFilters", "fieldMappings", "dateRanges", "conditions"} |->
                   CASE k = "staticFilters" -> staticFilters
                     [] k = "fieldMappings" -> fieldMappings
                     [] k = "dateRanges" -> dateRanges
                     [] OTHER -> conditions]
    IN  Obj([k \in {x \in DOMAIN all : all[x] # Undef} |-> all[k]])

ConditionsOnly(conditions) == Config(Undef, Undef, Undef, Arr(conditions))

\* Field conditions: a reference or a literal, $eq or another operator.
RefEqA == field("a", EQ, Str("$a"))
RefLteA == field("a", LTE, Str("$a"))
LitGtB == field("b", "$gt", Num(5))
FieldLeaves ==
    { RefEqA, RefLteA, LitGtB,
      field("b", "INVALID_OP", Str("$r.from")),
      field("a", "$ne", Str("$a.x")),
      field("b", EQ, Str("$r.x.y")),
      field("b", EQ, Null),
      field("a", "$in", Str("")),
      field("a", "", Num(0)),
      field("b", EQ, Str("$a.constructor.name")),
      field("b", "$gt", Str("$a.constructor.caller")) }

\* Date-range conditions: bounds from the data, defaults, a reference.
RangeR == dateRange("r", Undef, Undef)
RangeLeaves ==
    { RangeR,
      Obj([k \in {"field", "from"} |-> IF k = "field" THEN Str("r") ELSE Date(1)]),
      Obj([k \in {"field", "to"} |-> IF k = "field" THEN Str("r") ELSE Str("$a")]),
      dateRange("r", Str(""), Date(2)) }

\* A node the schema does not see, with a field that is no string.
Unchecked(f, k, v) ==
    Obj([x \in {"field", k} |-> IF x = "field" THEN f ELSE v])

\* Field conditions with a logical operator, which the schema accepts
\* without looking at their conditions: a string, an array in place of a
\* node, a node whose field is a number, with and without a bound, a
\* date or a built-in object, and Array.prototype in place of the array.
UncheckedGroups ==
    { With(field("a", AND, Num(1)), "conditions", Str("")),
      With(field("a", NOR, Num(1)), "conditions", Proto("Array")),
      With(field("a", OR, Num(1)), "conditions",
           Arr(<<Unchecked(Date(86400000), "value", Num(1))>>)),
      With(field("a", OR, Num(1)), "conditions",
           Arr(<<Unchecked(Proto("Date"), "value", Num(1))>>)),
      With(field("a", OR, Num(1)), "conditions",
           Arr(<<Unchecked(Proto("String"), "from", Date(1))>>)),
      With(field("a", OR, Num(1)), "conditions", Str("ab")),
      With(field("a", NOR, Num(1)), "conditions", Arr(<<Arr(<<>>)>>)),
      With(field("a", OR, Num(1)), "conditions",
           Arr(<<Obj([k \in {"field", "operator", "value"} |->
                        CASE k = "field" -> Num(5)
                          [] k = "operator" -> Str("$gt")
                          [] OTHER -> Num(1)])>>)),
      With(field("a", OR, Num(1)), "conditions",
           Arr(<<Obj([k \in {"field", "from"} |->
                        IF k = "field" THEN Num(5) ELSE Date(1)])>>)) }

\* Nodes that carry keys of more than one variant, or of none.
MixedNodes ==
    { Obj([k \in {"field"} |-> Str("r")]),
      With(field("a", AND, Num(1)), "extra", Null),
      field("a", AND, Num(1)),
      With(field("a", OR, Num(1)), "conditions", Arr(<<>>)),
      With(field("a", NOR, Num(1)), "conditions", Arr(<<EmptyObj>>)),
      With(field("a", "$gt", Num(1)), "from", Date(1)),
      With(and(<<LitGtB>>), "field", Str("a")),
      With(or(<<RefEqA>>), "to", Date(2)) }
    \cup UncheckedGroups

\* Nodes the schema is expected to refuse.
MalformedNodes ==
    { EmptyObj,
      Obj([k \in {"field", "value"} |-> IF k = "field" THEN Str("a") ELSE Num(18)]),
      or(<<>>),
      and(<<or(<<>>)>>),
      field("", EQ, Num(1)),
      dateRange("", Date(1), Undef),
      dateRange("r", Num(5), Undef),
      With(RangeR, "operator", Str("$gt")) }

LeafNodes == FieldLeaves \cup RangeLeaves

OddNodes == MixedNodes \cup MalformedNodes

Group(op, conditions) ==
    CASE op = AND -> and(conditions)
      [] op = OR -> or(conditions)
      [] OTHER -> nor(conditions)

\* The condition lists around a node c: alone, or beside a condition that
\* survives exactly when the data bag has a value for a.
ListsAround(c) == {<<c>>, <<c, RefLteA>>, <<RefLteA, c>>}

Groups(c) == { Group(op, kids) : op \in {AND, OR, NOR}, kids \in ListsAround(c) }

TreeLeaves == {RefEqA, LitGtB, RangeR}

RECURSIVE TreeNodes(_)
TreeNodes(depth) ==
    IF depth = 0 THEN TreeLeaves
    ELSE TreeLeaves \cup UNION { Groups(c) : c \in TreeNodes(depth - 1) }

\* Data bags: a is a scalar, r an object with range bounds.
Bag(a, r) ==
    LET all == [k \in {"a", "r"} |-> IF k = "a" THEN a ELSE r]
    IN  Obj([k \in {x \in DOMAIN all : all[x] # Undef} |-> all[k]])

Bounds(from, to) ==
    LET all == [k \in {"from", "to"} |-> IF k = "from" THEN from ELSE to]
    IN  Obj([k \in {x \in DOMAIN all : all[x] # Undef} |-> all[k]])

ScalarValues == {Undef, Null, Num(0), Str(""), Bool(FALSE), Num(5)}

RangeValues ==
    { Undef, Null, EmptyObj, Bounds(Date(1), Undef), Bounds(Undef, Date(2)),
      Bounds(Date(1), Date(2)), Bounds(Num(0), Date(2)) }

AllData ==
    { Bag(a, r) : a \in ScalarValues, r \in RangeValues }
    \cup { With(Bag(Num(5), Undef), "", Bounds(Undef, Date(2))) }

TreeData ==
    { Bag(Undef, Undef), Bag(Null, Undef), Bag(Num(0), Bounds(Date(1), Undef)),
      Bag(Num(5), Undef), Bag(Undef, Bounds(Date(1), Date(2))) }

StageData ==
    { Bag(a, Undef) : a \in ScalarValues } \cup { Bag(Undef, r) : r \in RangeValues }
    \cup { Bag(Num(5), Bounds(Date(1), Date(2))),
           With(Bag(Num(0), Undef), "", Bounds(Undef, Date(2))) }

\* Configurations with one or two top-level conditions of every kind.
LeafConfigs ==
    { ConditionsOnly(<<n>>) : n \in LeafNodes \cup OddNodes }
    \cup { ConditionsOnly(<<n, m>>) : n \in LeafNodes \cup OddNodes, m \in {RefLteA, LitGtB} }
    \cup { ConditionsOnly(<<or(<<n>>)>>) : n \in OddNodes }

\* Lists of three conditions: the one in the middle survives exactly when
\* the data bag has a value for a, the other two always and on their own
\* fields.
LitNeC == field("c", "$ne", Num(1))
Triples == { <<LitGtB, RefEqA, LitNeC>>, <<LitNeC, RefLteA, LitGtB>> }

\* Configurations whose conditions are such a list, at the top level, in a
\* group and in a group of a group.
OrderConfigs ==
    { ConditionsOnly(t) : t \in Triples }
    \cup { ConditionsOnly(<<Group(op, t)>>) : op \in {AND, OR, NOR}, t \in Triples }
    \cup { ConditionsOnly(<<Group(outer, <<RefLteA, Group(op, t)>>)>>) :
                outer \in {OR, NOR}, op \in {AND, OR}, t \in Triples }

\* Configurations whose conditions are nested groups.
TreeConfigs ==
    { ConditionsOnly(<<>>) } \cup
    { ConditionsOnly(kids) : kids \in UNION { ListsAround(c) : c \in TreeNodes(MaxDepth) } }
    \cup OrderConfigs

\* Configurations that combine the four stages, with keys that collide.
StaticFilterChoices ==
    { Undef,
      Obj([k \in {"a"} |-> Str("$a")]),
      Obj([k \in {"a", "b"} |-> IF k = "a" THEN Str("active") ELSE Bool(FALSE)]),
      Obj([k \in {"r"} |-> Null]) }

FieldMappingChoices ==
    { Undef,
      Obj([k \in {"a"} |-> Str("a")]),
      Obj([k \in {"b"} |-> Str("r.from")]),
      Obj([k \in {"c", "b"} |-> IF k = "c" THEN Str("r.x.y") ELSE Str("a.x")]),
      Obj([k \in {"c", "r"} |-> IF k = "c" THEN Str("") ELSE Str("a")]),
      Obj([k \in {"c", "r", "n"} |->
              CASE k = "c" -> Str("") [] k = "r" -> Str("a") [] OTHER -> Str("r.from")]),
      Obj([k \in {"n", "f"} |-> IF k = "n" THEN Str("a.length") ELSE Str("r.constructor")]),
      Obj([k \in {"n"} |-> Str("a.constructor.length")]),
      Obj([k \in {"n", "c"} |-> IF k = "n" THEN Str("a.constructor.caller") ELSE Str("a")]) }

DateRangeChoices ==
    { Undef,
      Arr(<<RangeR>>),
      Arr(<<Obj([k \in {"field", "from"} |-> IF k = "field" THEN Str("r") ELSE Date(1)])>>),
      Arr(<<Obj([k \in {"field"} |-> Str("r")]),
            Obj([k \in {"field", "to"} |-> IF k = "field" THEN Str("a") ELSE Str("$a")])>>) }

ConditionChoices ==
    { Undef, Arr(<<>>), Arr(<<RefEqA>>), Arr(<<RefEqA, LitGtB>>), Arr(<<or(<<RangeR>>)>>) }

\* Date ranges of which the second throws at its lookup, after the first
\* was assigned.
ThrowingDateRanges ==
    Arr(<<Obj([k \in {"field", "from"} |-> IF k = "field" THEN Str("r") ELSE Date(1)]),
          Obj([k \in {"field"} |-> Str("a.constructor.caller")])>>)

StageConfigs ==
    { Config(sf, fm, dr, cs) : sf \in StaticFilterChoices, fm \in FieldMappingChoices,
                               dr \in DateRangeChoices, cs \in ConditionChoices }
    \cup { Config(sf, Undef, ThrowingDateRanges, cs) :
               sf \in StaticFilterChoices, cs \in {Undef, Arr(<<RefEqA, LitGtB>>)} }

\* Configurations whose stages themselves are malformed or are built-in
\* objects, and values that are no plain object.
MalformedConfigs ==
    { Config(Num(1), Undef, Undef, Undef),
      Config(Obj([k \in {"constructor"} |-> Num(1)]), Undef, Undef, Undef),
      Config(Obj([k \in {"constructor"} |-> Null]), Undef, Undef, Undef),
      Config(Proto("Object"), Undef, Undef, Undef),
      Config(Undef, Obj([k \in {"constructor"} |-> Str("x")]), Undef, Undef),
      Config(Undef, Undef, Proto("Array"), Proto("Array")),
      Proto("Array"),
      Proto("Function"),
      Proto("String"),
      Config(Undef, Obj([k \in {"a"} |-> Num(1)]), Undef, Undef),
      Config(Undef, Undef, Arr(<<field("r", "$gt", Num(1))>>), Undef),
      Config(Undef, Undef, Arr(<<dateRange("", Undef, Undef)>>), Undef),
      Config(Undef, Undef, Undef, Str("x")),
      Arr(<<>>),
      Date(1) }

\* No configuration under any name.
NoConfigs == [n \in {} |-> Undef]

\* No call made to a manager.
NoOperations == [overlaps |-> 0, pending |-> EmptyBag]

\* No manager is involved: an empty collection and an empty cache.
NoManager ==
    /\ store = NoConfigs /\ cache = NoConfigs /\ cacheEnabled = FALSE
    /\ written = NoConfigs /\ operations = NoOperations
    /\ objects = [x \in {} |-> Undef]

-----------------------------------------------------------------------------
(* The state machine: a caller holds a configuration and a data bag and    *)
(* calls validateConfig or QueryBuilder.build on them.                     *)

Init ==
    /\ \/ config \in LeafConfigs /\ data \in AllData
       \/ config \in TreeConfigs /\ data \in TreeData
       \/ config \in StageConfigs /\ data \in StageData
       \/ config \in MalformedConfigs /\ data \in TreeData
    /\ result = NoResult
    /\ calls = <<>>
    /\ NoManager

\* validateConfig(config)
Validate ==
    /\ result = NoResult
    /\ result' = [op |-> "validate", outcome |-> validateConfig(config)]
    /\ UNCHANGED <<config, data, calls, manager>>

\* QueryBuilder.build(config, data)
Build ==
    /\ result = NoResult
    /\ result' = [op |-> "build", value |-> build(config, data)]
    /\ config' \in configAfterBuild(config, data)
    /\ UNCHANGED <<data, calls, manager>>

Next == Validate \/ Build

Spec == Init /\ [][Next]_vars

-----------------------------------------------------------------------------
(* A caller that calls QueryBuilder.build again and again; calls is the    *)
(* record of the calls made.                                               *)

MaxCalls == 3

CallConfigs ==
    { Config(Obj([k \in {"a", "b"} |-> IF k = "a" THEN Str("active") ELSE Bool(FALSE)]),
             Obj([k \in {"c"} |-> Str("a")]), Undef, Undef),
      Config(Undef, Undef, Arr(<<RangeR>>), Arr(<<RefEqA, LitGtB>>)),
      ConditionsOnly(<<or(<<RangeR, RefLteA>>)>>),
      ConditionsOnly(<<field("a", AND, Num(1))>>),
      ConditionsOnly(<<or(<<>>)>>) }

CallData == { Bag(Undef, Undef), Bag(Num(5), Undef), Bag(Num(0), Bounds(Date(1), Date(2))) }

InitCalls ==
    /\ config \in CallConfigs
    /\ data \in CallData
    /\ result = NoResult
    /\ calls = <<>>
    /\ NoManager

\* QueryBuilder.build(c, d), after whatever calls were made before, with
\* the configuration and data bag of an earlier call or with others.
Call ==
    \E c \in CallConfigs, d \in CallData :
        /\ Len(calls) < MaxCalls
        /\ result' = [op |-> "build", value |-> buildAfter(result, c, d)]
        /\ config' \in configAfterBuild(c, d)
        /\ data' = d
        /\ calls' = Append(calls, [config |-> c, data |-> d,
                                   value |-> buildAfter(result, c, d)])
        /\ UNCHANGED manager

NextCalls == Call

SpecCalls == InitCalls /\ [][NextCalls]_vars

-----------------------------------------------------------------------------
(* src/query-config-manager.ts                                             *)

\* m with the name n mapped to v, and m without n
Put(m, n, v) == [x \in DOMAIN m \cup {n} |-> IF x = n THEN v ELSE m[x]]
Remove(m, n) == [x \in DOMAIN m \ {n} |-> m[x]]

\* collection.updateOne({ name }, { $set: config }, { upsert: true }): the
\* fields of config are set on the document of that name, which is created
\* when there is none; the fields the document has and config lacks stay.
\* (The _id the collection adds to a document is left out.)
updateOne(st, name, set) ==
    Put(st, name, IF name \in DOMAIN st THEN Obj(SetFields(st[name].m, set.m)) ELSE set)

\* collection.findOne({ name })
findOne(st, name) == IF name \in DOMAIN st THEN st[name] ELSE Null

\* collection.deleteOne({ name }) and its deletedCount
deleteOne(st, name) == Remove(st, name)
deletedCount(st, name) == IF name \in DOMAIN st THEN 1 ELSE 0

\* The errors the manager throws (the message up to the cause).
NameRequired == Thrown("Configuration name is required")
SaveFailed(name) == Thrown("Failed to save configuration '" \o name \o "'")
RetrieveFailed(name) == Thrown("Failed to retrieve configuration '" \o name \o "'")
DeleteFailed(name) == Thrown("Failed to delete configuration '" \o name \o "'")
NotFound(name) == Thrown("Query configuration '" \o name \o "' not found")

\* The configuration objects are JavaScript objects: the Map holds
\* references, getConfig returns the object the Map holds, and saveConfig
\* sets updatedAt and createdAt on the object it is given.  An object is a
\* number here; objects[x] is the value the object x has now and cache[n]
\* the object cached under n.  A caller has a reference to the objects it
\* passed to saveConfig and to those getConfig returned to it.
\* Only the objects that the cache or a saveConfig in progress refers to
\* are kept: a call with any other object is a call with a new one.
\*
\* Every method that reaches the collection is async and awaits it.  A
\* call runs the method up to the await and sends the request (CallX), the
\* collection executes the request at some later moment (Access), and the
\* rest of the method runs when the answer is delivered (ResumeX).  Between
\* the steps of one operation the steps of others may run.
\*
\* operations.pending is the bag of the operations in progress and
\* operations.overlaps the number of calls made so far while another
\* operation was in progress.  An operation in progress is a record: the
\* method, its arguments (arg, data; for saveConfig arg is the
\* configuration as the call left it and ref the object), how far it is
\* (phase), what became of its request to the collection (request: none
\* was sent, "sent", "ok" or "failed") and what the method has in hand
\* (got, and ref for the object it is).  Three fields are history: alone
\* tells that no other call was made while the operation was in progress,
\* before is the content of the cache when the call was made, and held is
\* what the collection held under the name when it executed a read,
\* whether or not the read succeeded.
\*
\* result is what the step that has just been taken delivered to a caller:
\* the outcome of the operation it completed, or nothing.

\* The number of calls made while another operation is in progress.
MaxOverlaps == 1

AllDone == operations.pending = EmptyBag

\* No call has been made while another operation was in progress.
Sequential == operations.overlaps = 0

\* No object.
NoObject == 0
NoObjects == [x \in {} |-> Undef]

\* An object that is not among those given: the first number free.
NewObjectIn(used) == CHOOSE x \in 1..(Cardinality(used) + 1) : x \notin used

\* The object a call creates or receives.
Fresh == NewObjectIn(DOMAIN objects)

\* The configuration cached under n, and the content of the whole cache.
Cached(n) == objects[cache[n]]
CacheContent == [n \in DOMAIN cache |-> objects[cache[n]]]

\* The objects that a cache c or a saveConfig among the operations ops
\* refers to, and objs without the others.
Referenced(c, ops) ==
    { c[n] : n \in DOMAIN c }
    \cup { o.ref : o \in { p \in DOMAIN ops.pending : p.op = "saveConfig" } }
Reachable(objs, c, ops) == [x \in DOMAIN objs \cap Referenced(c, ops) |-> objs[x]]

Operation(op, arg, d) ==
    [op |-> op, arg |-> arg, data |-> d, phase |-> "sent", alone |-> TRUE,
     request |-> "sent", got |-> Undef, held |-> Undef, before |-> CacheContent,
     ref |-> NoObject]

\* The operations in progress, overlapped by one more call.
Overlapped ==
    LET pending == operations.pending
        Marked(o) == [o EXCEPT !.alone = FALSE]
        Copies(o) == IF o \in DOMAIN pending THEN pending[o] ELSE 0
    IN  [m \in { Marked(o) : o \in DOMAIN pending } |->
            Copies(m) + Copies([m EXCEPT !.alone = TRUE])]

\* A call is made: one that awaits (the operation o is in progress from
\* now on), or one that completes at once.  written is kept as long as the
\* history is sequential.
Issue(o) ==
    /\ AllDone \/ operations.overlaps < MaxOverlaps
    /\ operations' =
           [overlaps |-> IF AllDone THEN operations.overlaps
                         ELSE operations.overlaps + 1,
            pending |-> Overlapped (+)
                        SetToBag({[o EXCEPT !.alone = AllDone]})]
    /\ written' = IF AllDone THEN written ELSE NoConfigs

IssueDone ==
    /\ AllDone \/ operations.overlaps < MaxOverlaps
    /\ operations' =
           [overlaps |-> IF AllDone THEN operations.overlaps
                         ELSE operations.overlaps + 1,
            pending |-> Overlapped]
    /\ written' = IF AllDone THEN written ELSE NoConfigs

\* An operation in progress moves on, or completes.
Moved(o, to) ==
    [operations EXCEPT !.pending = (@ (-) SetToBag({o})) (+) SetToBag({to})]

Finished(o) == [operations EXCEPT !.pending = @ (-) SetToBag({o})]

\* The operations of the methods ops that are in the phase given.
InPhase(ops, phase) ==
    { o \in DOMAIN operations.pending : o.phase = phase /\ o.op \in ops }

\* The collection executed the request of the operation.
Ok(o) == o.request = "ok"

\* No request is sent to the collection.
NoRequest == "none"

\* The objects after a step that left them as objs, with the cache and
\* the operations of the next state.
Objects(objs) == objects' = Reachable(objs, cache', operations')

\* The objects of the manager a caller has a reference to: those of the
\* saveConfig calls in progress, and the one the call that has just
\* completed took or returned.
Shared ==
    DOMAIN objects \cap
        ({ o.ref : o \in InPhase({"saveConfig"}, "sent") \cup InPhase({"saveConfig"}, "answered") }
         \cup (IF result.op \in {"saveConfig", "getConfig"} THEN {result.ref} ELSE {}))

\* config.updatedAt = now; if (!config.createdAt) config.createdAt = now
Stamped(c, now) ==
    With(With(c, "updatedAt", now), "createdAt",
         IF Truthy(GetProp(c, "createdAt")) THEN GetProp(c, "createdAt") ELSE now)

\* saveConfig(config) at the time now, up to its await, for the object x
\* whose value is c: what it throws (or undefined when it goes on to the
\* write), the value of the object, and the cache and the objects after
\* it.  A configuration that fails a check throws before anything is set
\* or sent; the dates are set on the caller's object, so on the cache
\* entry and on the argument of a saveConfig in progress when that is the
\* same object.  (The names of the model are strings.)
saveConfigCalled(x, c, now) ==
    IF IsNullish(c)
    THEN [value |-> Thrown("TypeError"), config |-> c, cache |-> cache, objects |-> objects]
    ELSE IF ~Truthy(GetProp(c, "name"))
    THEN [value |-> NameRequired, config |-> c, cache |-> cache, objects |-> objects]
    ELSE IF validateConfig(c) # "ok"
    THEN [value |-> Thrown(validateConfig(c)), config |-> c, cache |-> cache,
          objects |-> objects]
    ELSE [value |-> Undef, config |-> Stamped(c, now), cache |-> cache,
          objects |-> Put(objects, x, Stamped(c, now))]

\* The rest of saveConfig, the write o answered: the object is cached
\* after a write that succeeded, and a failure is thrown on.
saveConfigResumed(o) ==
    [value |-> IF Ok(o) THEN Undef ELSE SaveFailed(o.arg.m["name"].s),
     cache |-> IF Ok(o) /\ cacheEnabled THEN Put(cache, o.arg.m["name"].s, o.ref)
               ELSE cache]

\* The rest of getConfig, the read o answered: a configuration that was
\* found is a new object, and is cached.
getConfigCaches(o) == Ok(o) /\ Truthy(o.got) /\ cacheEnabled

getConfigResumed(o) ==
    [value |-> IF Ok(o) THEN o.got ELSE RetrieveFailed(o.arg.s),
     ref |-> IF getConfigCaches(o) THEN Fresh ELSE NoObject,
     cache |-> IF getConfigCaches(o) THEN Put(cache, o.arg.s, Fresh) ELSE cache,
     objects |-> IF getConfigCaches(o) THEN Put(objects, Fresh, o.got) ELSE objects]

\* A variant that compiles an empty configuration when there is none.
buildQueryResumed_Fallback(configName, got, d) ==
    IF IsThrown(got) THEN got
    ELSE IF ~Truthy(got) THEN build(EmptyObj, d)
    ELSE build(got, d)

\* The rest of buildQuery, getConfig having given got (a configuration,
\* null or what it threw).
buildQueryResumed(configName, got, d) ==
    IF IsThrown(got) THEN got
    ELSE IF ~Truthy(got) THEN NotFound(configName)
    ELSE build(got, d)

\* The rest of deleteConfig: the cache entry goes after the delete
\* succeeded.
deleteConfigResumed(o) ==
    [value |-> IF Ok(o) THEN Bool(o.got.n > 0) ELSE DeleteFailed(o.arg.s),
     cache |-> IF Ok(o) /\ cacheEnabled THEN Remove(cache, o.arg.s) ELSE cache]

\* clearCache()
clearCache == NoConfigs

\* A variant that clears the cache before it reads the collection.
preloadCacheCalled_ClearsFirst == IF cacheEnabled THEN NoConfigs ELSE cache

\* The cache after preloadCache ran up to its await: as it was.
preloadCacheCalled == cache

\* The documents of a find({}).toArray(), by name.
ByName(configs) ==
    [n \in {configs[k].m["name"].s : k \in DOMAIN configs} |->
        configs[CHOOSE k \in DOMAIN configs : configs[k].m["name"].s = n]]

\* New objects for the names given, one each, none of them among used.
NewObjects(names, used) ==
    CHOOSE f \in [names -> (1..(Cardinality(names) + Cardinality(used))) \ used] :
        \A n, m \in names : f[n] = f[m] => n = m

\* The objects objs and the documents docs as the objects that news
\* names.
WithObjects(objs, docs, news) ==
    [x \in DOMAIN objs \cup { news[n] : n \in DOMAIN news } |->
        IF \E n \in DOMAIN news : news[n] = x
        THEN docs[CHOOSE n \in DOMAIN news : news[n] = x]
        ELSE objs[x]]

\* A variant of the rest of preloadCache without this.cache.clear().
preloadResumed_KeepsEntries(configs) ==
    [cache |-> [n \in DOMAIN cache \cup DOMAIN ByName(configs) |->
                   IF n \in DOMAIN ByName(configs)
                   THEN NewObjects(DOMAIN ByName(configs), DOMAIN objects)[n]
                   ELSE cache[n]],
     objects |-> WithObjects(objects, ByName(configs),
                             NewObjects(DOMAIN ByName(configs), DOMAIN objects))]

\* The rest of preloadCache after the read: the cache is cleared and every
\* document read, a new object, is set under its name.
preloadResumed(configs) ==
    [cache |-> NewObjects(DOMAIN ByName(configs), DOMAIN objects),
     objects |-> WithObjects(objects, ByName(configs),
                             NewObjects(DOMAIN ByName(configs), DOMAIN objects))]

\* saveConfig(config) is called with the object x, whose value is c.
CallSaveConfig(x, c, now) ==
    \E r \in {saveConfigCalled(x, c, now)} :
        IF IsThrown(r.value)
        THEN /\ IssueDone
             /\ result' = [op |-> "saveConfig", config |-> r.config, value |-> r.value,
                           request |-> NoRequest, ref |-> x]
             /\ cache' = r.cache
             /\ Objects(r.objects)
             /\ UNCHANGED <<config, data, calls, store, cacheEnabled>>
        ELSE /\ Issue([Operation("saveConfig", r.config, Undef) EXCEPT !.ref = x])
             /\ cache' = r.cache
             /\ Objects(r.objects)
             /\ result' = NoResult
             /\ UNCHANGED <<config, data, calls, store, cacheEnabled>>

\* getConfig(name) is called: a cached configuration is returned without
\* a read, the object the cache holds.
CallGetConfig(name) ==
    IF cacheEnabled /\ name \in DOMAIN cache
    THEN /\ IssueDone
         /\ result' = [op |-> "getConfig", name |-> name, value |-> Cached(name),
                       request |-> NoRequest, ref |-> cache[name]]
         /\ UNCHANGED <<config, data, calls, store, cache, cacheEnabled, objects>>
    ELSE /\ Issue(Operation("getConfig", Str(name), Undef))
         /\ result' = NoResult
         /\ UNCHANGED <<config, data, calls, store, cache, cacheEnabled, objects>>

\* buildQuery(name, d) is called: it awaits getConfig(name), which has the
\* configuration at once when it is cached.
CallBuildQuery(name, d) ==
    /\ Issue(IF cacheEnabled /\ name \in DOMAIN cache
             THEN [Operation("buildQuery", Str(name), d) EXCEPT
                       !.phase = "got", !.request = NoRequest, !.got = Cached(name),
                       !.ref = cache[name]]
             ELSE Operation("buildQuery", Str(name), d))
    /\ result' = NoResult
    /\ UNCHANGED <<config, data, calls, store, cache, cacheEnabled, objects>>

\* deleteConfig(name) is called.
CallDeleteConfig(name) ==
    /\ Issue(Operation("deleteConfig", Str(name), Undef))
    /\ result' = NoResult
    /\ UNCHANGED <<config, data, calls, store, cache, cacheEnabled, objects>>

\* clearCache() is called; it has no await.
CallClearCache ==
    /\ IssueDone
    /\ cache' = clearCache
    /\ Objects(objects)
    /\ result' = [op |-> "clearCache", value |-> Undef, request |-> NoRequest]
    /\ UNCHANGED <<config, data, calls, store, cacheEnabled>>

\* preloadCache() is called: it returns at once when caching is off.
CallPreloadCache ==
    IF ~cacheEnabled
    THEN /\ IssueDone
         /\ result' = [op |-> "preloadCache", value |-> Undef, request |-> NoRequest,
                       alone |-> AllDone, cachedBefore |-> DOMAIN cache]
         /\ UNCHANGED <<config, data, calls, store, cache, cacheEnabled, objects>>
    ELSE /\ Issue(Operation("preloadCache", Undef, Undef))
         /\ cache' = preloadCacheCalled
         /\ Objects(objects)
         /\ result' = NoResult
         /\ UNCHANGED <<config, data, calls, store, cacheEnabled>>

\* What updateOne writes for the saveConfig o: the driver serialises the
\* object at some moment between the call and the write, before or after
\* another saveConfig has set its dates again.
Serialised(o) == {o.arg, objects[o.ref]}

\* The collection executes the request of an operation, or fails to; the
\* answer to find({}) is the documents it holds.
Access ==
    \E o \in InPhase({"saveConfig", "getConfig", "buildQuery", "deleteConfig",
                      "preloadCache"}, "sent"), ok \in BOOLEAN :
        /\ \E doc \in IF o.op = "saveConfig" THEN Serialised(o) ELSE {Undef} :
               store' = IF ok /\ o.op = "saveConfig"
                        THEN updateOne(store, o.arg.m["name"].s, doc)
                        ELSE IF ok /\ o.op = "deleteConfig"
                        THEN deleteOne(store, o.arg.s)
                        ELSE store
        /\ operations' =
               Moved(o, [o EXCEPT
                   !.phase = "answered",
                   !.request = IF ok THEN "ok" ELSE "failed",
                   !.held = IF o.op \in {"getConfig", "buildQuery"}
                            THEN findOne(store, o.arg.s) ELSE Undef,
                   !.got = IF ~ok THEN Undef
                           ELSE CASE o.op \in {"getConfig", "buildQuery"} ->
                                         findOne(store, o.arg.s)
                                  [] o.op = "deleteConfig" ->
                                         Num(deletedCount(store, o.arg.s))
                                  [] o.op = "preloadCache" ->
                                         [t |-> "docs", m |-> store]
                                  [] OTHER -> Undef])
        /\ result' = NoResult
        /\ UNCHANGED <<config, data, calls, cache, cacheEnabled, written, objects>>

\* The rest of saveConfig runs: the caller's object is the one cached.
ResumeSaveConfig ==
    \E o \in InPhase({"saveConfig"}, "answered") :
        \E r \in {saveConfigResumed(o)}, done \in {Finished(o)} :
            /\ cache' = r.cache
            /\ result' = [op |-> "saveConfig", config |-> objects[o.ref],
                          value |-> r.value, request |-> o.request, ref |-> o.ref]
            /\ written' = IF ~Sequential THEN NoConfigs
                          ELSE IF Ok(o) THEN Put(written, o.arg.m["name"].s, objects[o.ref])
                          ELSE written
            /\ operations' = done
            /\ Objects(objects)
            /\ UNCHANGED <<config, data, calls, store, cacheEnabled>>

\* The rest of getConfig runs, called by a caller or by buildQuery; what
\* it returns or throws is then with buildQuery.
ResumeGetConfig ==
    \E o \in InPhase({"getConfig", "buildQuery"}, "answered") :
        \E r \in {getConfigResumed(o)} :
            /\ cache' = r.cache
            /\ IF o.op = "getConfig"
               THEN /\ result' = [op |-> "getConfig", name |-> o.arg.s,
                                  value |-> r.value, request |-> o.request,
                                  ref |-> r.ref]
                    /\ operations' = Finished(o)
               ELSE /\ result' = NoResult
                    /\ operations' = Moved(o, [o EXCEPT !.phase = "got",
                                                        !.got = r.value,
                                                        !.ref = r.ref])
            /\ Objects(r.objects)
            /\ UNCHANGED <<config, data, calls, store, cacheEnabled, written>>

\* The rest of buildQuery runs: the configuration is compiled.  build is
\* given the object getConfig returned, and what it does to the object
\* shows in the cache if the object is still there.
ResumeBuildQuery ==
    \E o \in InPhase({"buildQuery"}, "got") :
        \E value \in {buildQueryResumed(o.arg.s, o.got, o.data)}, done \in {Finished(o)} :
            /\ result' = [op |-> "buildQuery", name |-> o.arg.s, data |-> o.data,
                          value |-> value,
                          request |-> o.request]
            /\ operations' = done
            /\ UNCHANGED <<config, data, calls, store, cache, cacheEnabled, written>>
            /\ \E after \in IF o.ref \in DOMAIN objects
                              THEN configAfterBuild(objects[o.ref], o.data)
                              ELSE {Undef} :
                   Objects(IF o.ref \in DOMAIN objects
                           THEN Put(objects, o.ref, after)
                           ELSE objects)

\* The rest of deleteConfig runs.
ResumeDeleteConfig ==
    \E o \in InPhase({"deleteConfig"}, "answered") :
        \E r \in {deleteConfigResumed(o)}, done \in {Finished(o)} :
            /\ cache' = r.cache
            /\ result' = [op |-> "deleteConfig", name |-> o.arg.s, value |-> r.value,
                          request |-> o.request]
            /\ written' = IF ~Sequential THEN NoConfigs
                          ELSE IF Ok(o) THEN Put(written, o.arg.s, Null)
                          ELSE written
            /\ operations' = done
            /\ Objects(objects)
            /\ UNCHANGED <<config, data, calls, store, cacheEnabled>>

\* The rest of preloadCache runs: a failed read is logged.  Its result
\* tells whether the operation ran alone and the names that were cached
\* before it resumed.
ResumePreloadCache ==
    \E o \in InPhase({"preloadCache"}, "answered") :
        \E done \in {Finished(o)} :
            /\ cache' = IF Ok(o) THEN preloadResumed(o.got.m).cache ELSE cache
            /\ result' = [op |-> "preloadCache", value |-> Undef, request |-> o.request,
                          alone |-> o.alone, cachedBefore |-> DOMAIN cache]
            /\ operations' = done
            /\ Objects(IF Ok(o) THEN preloadResumed(o.got.m).objects ELSE objects)
            /\ UNCHANGED <<config, data, calls, store, cacheEnabled, written>>

\* The configurations callers save, under two names: with static filters
\* and a mapping, with conditions, with a creation date, without a name,
\* one the schema rejects and one whose compilation throws.
Named(name, c) == With(c, "name", Str(name))

StagesConfig ==
    Config(Obj([k \in {"a", "b"} |-> IF k = "a" THEN Str("active") ELSE Bool(FALSE)]),
           Obj([k \in {"c"} |-> Str("a")]), Undef, Undef)

ManagerConfigs ==
    { Named("n1", StagesConfig),
      Named("n1", ConditionsOnly(<<RefEqA, LitGtB>>)),
      With(Named("n2", ConditionsOnly(<<RefEqA, LitGtB>>)), "createdAt", Date(1)),
      StagesConfig,
      Named("", ConditionsOnly(<<RefEqA, LitGtB>>)),
      Named("n1", ConditionsOnly(<<or(<<>>)>>)),
      Named("n2", ConditionsOnly(<<field("a", AND, Num(1))>>)) }

Names == {"n1", "n2"}

ManagerData == { Bag(Undef, Undef), Bag(Num(5), Undef) }

\* The values of new Date(): later than the dates of the documents the
\* collection starts with, and later again when saveConfig is called with
\* an object that was saved or read before.
Times == { Date(2) }
LaterTimes == { Date(3) }

\* A document as a save at the time at leaves it in an empty collection.
Stored(c, at) == With(With(c, "updatedAt", at), "createdAt", at)

\* The collection when the manager is constructed: empty, or with
\* documents written earlier, one of them not by saveConfig.
InitialStores ==
    { NoConfigs,
      [n \in {"n1"} |-> Stored(Named("n1", StagesConfig), Date(1))],
      [n \in {"n1", "n2"} |->
          IF n = "n1" THEN Named("n1", ConditionsOnly(<<or(<<>>)>>))
          ELSE Stored(Named("n2", ConditionsOnly(<<RefEqA, LitGtB>>)), Date(1))] }

-----------------------------------------------------------------------------
(* A manager whose caller awaits every call before it makes the next: the  *)
(* histories are sequential.  written is the configuration last saved      *)
(* under each name, or null after a delete.                                *)

InitManager ==
    /\ store \in InitialStores
    /\ cache = NoConfigs
    /\ cacheEnabled \in BOOLEAN
    /\ written = NoConfigs
    /\ operations = NoOperations
    /\ objects = NoObjects
    /\ config = StagesConfig
    /\ data = Bag(Undef, Undef)
    /\ result = NoResult
    /\ calls = <<>>

\* saveConfig of an object the manager does not hold.
AwaitedSaveConfig ==
    \E c \in ManagerConfigs, now \in Times : AllDone /\ CallSaveConfig(Fresh, c, now)

\* saveConfig of the object the caller has just saved, or got from
\* getConfig.
AwaitedSaveAgain ==
    \E x \in Shared, now \in LaterTimes : AllDone /\ CallSaveConfig(x, objects[x], now)

AwaitedGetConfig == \E name \in Names : AllDone /\ CallGetConfig(name)

AwaitedBuildQuery ==
    \E name \in Names, d \in ManagerData : AllDone /\ CallBuildQuery(name, d)

AwaitedDeleteConfig == \E name \in Names : AllDone /\ CallDeleteConfig(name)

AwaitedClearCache == AllDone /\ CallClearCache

AwaitedPreloadCache == AllDone /\ CallPreloadCache

NextManager ==
    \/ AwaitedSaveConfig \/ AwaitedSaveAgain \/ AwaitedGetConfig \/ AwaitedBuildQuery
    \/ AwaitedDeleteConfig \/ AwaitedClearCache \/ AwaitedPreloadCache
    \/ Access
    \/ ResumeSaveConfig \/ ResumeGetConfig \/ ResumeBuildQuery
    \/ ResumeDeleteConfig \/ ResumePreloadCache

SpecManager == InitManager /\ [][NextManager]_vars

-----------------------------------------------------------------------------
(* A manager whose callers do not wait: a call is made at any moment, and  *)
(* the steps of the operations in progress interleave freely.              *)

\* Two versions of one configuration, one without a name and one the
\* schema rejects.
ConcurrentConfigs ==
    { Named("n1", ConditionsOnly(<<LitGtB>>)),
      Named("n1", ConditionsOnly(<<RefEqA, LitGtB>>)),
      ConditionsOnly(<<LitGtB>>),
      Named("n1", ConditionsOnly(<<or(<<>>)>>)) }

ConcurrentNames == {"n1", "n2"}

ConcurrentData == { Bag(Num(5), Undef) }

ConcurrentStores ==
    { NoConfigs,
      [n \in {"n1", "n2"} |-> Stored(Named(n, ConditionsOnly(<<LitGtB>>)), Date(1))] }

InitConcurrent ==
    /\ store \in ConcurrentStores
    /\ cache = NoConfigs
    /\ cacheEnabled \in BOOLEAN
    /\ written = NoConfigs
    /\ operations = NoOperations
    /\ objects = NoObjects
    /\ config = StagesConfig
    /\ data = Bag(Undef, Undef)
    /\ result = NoResult
    /\ calls = <<>>

OverlappingSaveConfig ==
    \E c \in ConcurrentConfigs, now \in Times : CallSaveConfig(Fresh, c, now)

\* saveConfig of an object whose saveConfig is in progress, or of the one
\* the caller has just saved or got from getConfig.
OverlappingSaveAgain ==
    \E x \in Shared, now \in LaterTimes : CallSaveConfig(x, objects[x], now)

OverlappingGetConfig == \E name \in ConcurrentNames : CallGetConfig(name)

OverlappingBuildQuery ==
    \E name \in ConcurrentNames, d \in ConcurrentData : CallBuildQuery(name, d)

OverlappingDeleteConfig == \E name \in ConcurrentNames : CallDeleteConfig(name)

NextConcurrent ==
    \/ OverlappingSaveConfig \/ OverlappingSaveAgain \/ OverlappingGetConfig
    \/ OverlappingBuildQuery
    \/ OverlappingDeleteConfig \/ CallClearCache \/ CallPreloadCache
    \/ Access
    \/ ResumeSaveConfig \/ ResumeGetConfig \/ ResumeBuildQuery
    \/ ResumeDeleteConfig \/ ResumePreloadCache

SpecConcurrent == InitConcurrent /\ [][NextConcurrent]_vars

-----------------------------------------------------------------------------
(* Vocabulary of the claims                                                *)

Built == result.op = "build"

\* build returned a filter document.
Returned == Built /\ result.value.t = "obj"

Accepted == validateConfig(config) = "ok"

\* The top-level condition nodes of the configuration.
TopConditions ==
    IF HasKey(config, "conditions") /\ config.m["conditions"].t = "arr"
    THEN config.m["conditions"].a ELSE <<>>

\* The classification of a node, as the data model states it.
IsLogicalCondition(n) ==
    HasKey(n, "operator") /\ n.m["operator"] \in {Str("$and"), Str("$or"), Str("$nor")}

IsDateRangeCondition(n) ==
    n.t = "obj" /\ ~IsLogicalCondition(n) /\ (HasKey(n, "from") \/ HasKey(n, "to"))

IsFieldCondition(n) ==
    n.t = "obj" /\ ~IsLogicalCondition(n) /\ ~IsDateRangeCondition(n)

\* The children of a logical node.
Children(n) ==
    IF HasKey(n, "conditions") /\ n.m["conditions"].t = "arr"
    THEN n.m["conditions"].a ELSE <<>>

\* A node and every node below it.
RECURSIVE SubNodes(_)
SubNodes(n) ==
    {n} \cup IF IsLogicalCondition(n)
             THEN UNION { SubNodes(Children(n)[i]) : i \in 1..Len(Children(n)) }
             ELSE {}

\* Every node of the conditions tree, at every depth.
AllNodes == UNION { SubNodes(TopConditions[i]) : i \in 1..Len(TopConditions) }

\* The elements of a sequence of sub-documents that are not null, in order.
RECURSIVE NonNull(_)
NonNull(docs) ==
    IF docs = <<>> THEN <<>>
    ELSE (IF Head(docs) # Null THEN <<Head(docs)>> ELSE <<>>) \o NonNull(Tail(docs))

\* The sub-documents that survive of a list of nodes, in order.
Survivors(nodes) == NonNull([i \in 1..Len(nodes) |-> processCondition(nodes[i], data)])

-----------------------------------------------------------------------------
(* The claims                                                              *)

\* C1: for every configuration that validateConfig accepts and every data
\* bag, build returns a filter document and never throws.
C1_BuildIsTotal == (Built /\ Accepted) => result.value.t = "obj"

\* The value of a field condition is a reference: a '$'-prefixed string.
IsReference(n) ==
    GetProp(n, "value").t = "str" /\ Len(GetProp(n, "value").s) >= 1
    /\ Head(GetProp(n, "value").s) = "$"

\* What the reference of a field condition resolves to in the data bag.
Resolved(n) == getNestedValue(data, Str(Tail(GetProp(n, "value").s)))

UnresolvedReference(n) == IsReference(n) /\ Resolved(n) \in {Undef, Null}

\* The value a field condition is emitted with.
EmittedValue(n) == IF IsReference(n) THEN Resolved(n) ELSE GetProp(n, "value")

\* doc is the sub-document of field condition n alone, carrying its value
\* bare or under its operator.
Carries(doc, n) ==
    LET f == PropertyKey(GetProp(n, "field"))
        op == PropertyKey(GetProp(n, "operator"))
    IN  /\ doc.t = "obj"
        /\ DOMAIN doc.m = {f}
        /\ \/ doc.m[f] = EmittedValue(n)
           \/ /\ doc.m[f].t = "obj"
              /\ DOMAIN doc.m[f].m = {op}
              /\ doc.m[f].m[op] = EmittedValue(n)

\* The nodes of a list that are not unresolved references, in order.
RECURSIVE Emitted(_)
Emitted(nodes) ==
    IF nodes = <<>> THEN <<>>
    ELSE (IF UnresolvedReference(Head(nodes)) THEN <<>> ELSE <<Head(nodes)>>)
         \o Emitted(Tail(nodes))

OnlyConditions == config.t = "obj" /\ DOMAIN config.m = {"conditions"}

AllTopAreFieldConditions ==
    \A i \in 1..Len(TopConditions) : IsFieldCondition(TopConditions[i])

\* C2: a field condition is omitted from the compiled output if and only if
\* its value is a '$'-prefixed reference that resolves to undefined or null;
\* any other resolved value (0, false and '' included) and any literal (null
\* included) is emitted, and an omission removes no sibling: the output of a
\* list of field conditions holds exactly the conditions that are not
\* unresolved references, each with its value, in order.
C2_OmittedIffUnresolvedReference ==
    Returned =>
        /\ \A n \in AllNodes :
               IsFieldCondition(n) =>
                   IF UnresolvedReference(n) THEN processCondition(n, data) = Null
                   ELSE Carries(processCondition(n, data), n)
        /\ (OnlyConditions /\ AllTopAreFieldConditions) =>
               LET kept == Emitted(TopConditions)
               IN  CASE Len(kept) = 0 -> result.value = EmptyObj
                     [] Len(kept) = 1 -> Carries(result.value, kept[1])
                     [] OTHER ->
                          /\ DOMAIN result.value.m = {"$and"}
                          /\ result.value.m["$and"].t = "arr"
                          /\ Len(result.value.m["$and"].a) = Len(kept)
                          /\ \A i \in 1..Len(kept) :
                                 Carries(result.value.m["$and"].a[i], kept[i])

\* Two field conditions were compiled: the first was omitted and the second,
\* a reference that resolves to a falsy value, was emitted.
C2_Witness ==
    /\ Returned /\ OnlyConditions /\ AllTopAreFieldConditions
    /\ Len(TopConditions) = 2
    /\ UnresolvedReference(TopConditions[1])
    /\ IsReference(TopConditions[2]) /\ Resolved(TopConditions[2]) = Num(0)
    /\ Carries(result.value, TopConditions[2])

\* C3: for every key k of config.staticFilters the final output of build
\* contains k with exactly the value staticFilters[k]: never resolved as a
\* reference, never dropped, never replaced by a later stage.
C3_StaticFiltersKept ==
    (Returned /\ HasKey(config, "staticFilters")) =>
        \A k \in DOMAIN config.m["staticFilters"].m :
            /\ k \in DOMAIN result.value.m
            /\ result.value.m[k] = config.m["staticFilters"].m[k]

LogicalOperator(n) == n.m["operator"].s

\* The node at the end of a chain of AND groups of one child each.
RECURSIVE ChainEnd(_)
ChainEnd(n) ==
    IF IsLogicalCondition(n) /\ LogicalOperator(n) = "$and" /\ Len(Children(n)) = 1
    THEN ChainEnd(Children(n)[1])
    ELSE n

RECURSIVE ChainLength(_)
ChainLength(n) ==
    IF IsLogicalCondition(n) /\ LogicalOperator(n) = "$and" /\ Len(Children(n)) = 1
    THEN 1 + ChainLength(Children(n)[1])
    ELSE 0

\* C4: an AND group with exactly one surviving sub-document d yields d
\* itself, at every depth, so a chain of such groups collapses to the
\* document at its end; an OR or NOR group with exactly one surviving
\* sub-document always yields {$or: [d]} or {$nor: [d]}.
C4_SingleSurvivor ==
    Returned =>
        /\ \A n \in AllNodes :
               (IsLogicalCondition(n) /\ Len(Survivors(Children(n))) = 1) =>
                   LET d == Survivors(Children(n))[1]
                   IN  processCondition(n, data) =
                           IF LogicalOperator(n) = "$and" THEN d
                           ELSE Obj([k \in {LogicalOperator(n)} |-> Arr(<<d>>)])
        /\ (OnlyConditions /\ Len(TopConditions) = 1
            /\ IsFieldCondition(ChainEnd(TopConditions[1]))
            /\ ~UnresolvedReference(ChainEnd(TopConditions[1]))) =>
               Carries(result.value, ChainEnd(TopConditions[1]))

\* A chain of two AND groups around one surviving field condition was
\* compiled to that condition's document.
C4_Witness ==
    /\ Returned /\ OnlyConditions /\ Len(TopConditions) = 1
    /\ ChainLength(TopConditions[1]) = 2
    /\ IsFieldCondition(ChainEnd(TopConditions[1]))
    /\ Carries(result.value, ChainEnd(TopConditions[1]))

\* Every node below n is omitted.
RECURSIVE Vanishes(_)
Vanishes(n) ==
    IF IsLogicalCondition(n)
    THEN \A i \in 1..Len(Children(n)) : Vanishes(Children(n)[i])
    ELSE IF IsFieldCondition(n) THEN UnresolvedReference(n)
    ELSE processCondition(n, data) = Null

\* No group array of the document is empty or holds an empty element.
RECURSIVE NoEmptyGroup(_)
NoEmptyGroup(doc) ==
    doc.t = "obj" =>
        \A k \in DOMAIN doc.m \cap {"$and", "$or", "$nor"} :
            doc.m[k].t = "arr" =>
                /\ Len(doc.m[k].a) >= 1
                /\ \A i \in 1..Len(doc.m[k].a) :
                       /\ doc.m[k].a[i] \notin {Null, Undef, EmptyObj}
                       /\ NoEmptyGroup(doc.m[k].a[i])

\* The number of children of n that do not vanish.
Remaining(n) == Cardinality({i \in 1..Len(Children(n)) : ~Vanishes(Children(n)[i])})

\* C5: a logical condition all of whose children are omitted contributes
\* nothing to its parent: it yields no document, the parent's array has one
\* element per child that remains, no empty array appears, and when it is
\* the only top-level condition of a configuration with no other stage
\* the output is {}.
C5_EmptyBranchVanishes ==
    Returned =>
        /\ \A n \in AllNodes :
               IsLogicalCondition(n) =>
                   /\ Vanishes(n) <=> processCondition(n, data) = Null
                   /\ Len(Survivors(Children(n))) = Remaining(n)
        /\ NoEmptyGroup(result.value)
        /\ (OnlyConditions /\ Len(TopConditions) = 1 /\ IsLogicalCondition(TopConditions[1])
            /\ Vanishes(TopConditions[1])) => result.value = EmptyObj

\* A group that holds a vanished group and nothing else was compiled to {}.
C5_Witness ==
    /\ Returned /\ OnlyConditions /\ Len(TopConditions) = 1
    /\ IsLogicalCondition(TopConditions[1])
    /\ Len(Children(TopConditions[1])) >= 1
    /\ \E i \in 1..Len(Children(TopConditions[1])) :
           /\ IsLogicalCondition(Children(TopConditions[1])[i])
           /\ Len(Children(Children(TopConditions[1])[i])) = 2
    /\ Vanishes(TopConditions[1])
    /\ result.value = EmptyObj

\* What the stages before the conditions stage put in the output.
BeforeConditions == build(Without(config, "conditions"), data).m

\* C6: the top-level conditions list is reduced by the number of surviving
\* sub-documents, not of declared nodes: no survivor adds no key; exactly
\* one survivor is merged into the output as it is, without $and; two or
\* more survivors add exactly {$and: survivors}.
C6_TopLevelReduction ==
    (Returned /\ HasKey(config, "conditions")) =>
        LET survivors == Survivors(TopConditions)
        IN  /\ Len(survivors) =
                   Cardinality({i \in 1..Len(TopConditions) : ~Vanishes(TopConditions[i])})
            /\ CASE Len(survivors) = 0 -> result.value.m = BeforeConditions
                 [] Len(survivors) = 1 ->
                      /\ result.value.m = Assign(BeforeConditions, survivors[1].m)
                      /\ survivors[1] # Obj([k \in {"$and"} |-> Arr(survivors)])
                 [] OTHER ->
                      result.value.m =
                          Assign(BeforeConditions, [k \in {"$and"} |-> Arr(survivors)])

\* Two conditions were declared beside other stages, one survived, and its
\* document was merged into the output without an $and key.
C6_Witness ==
    /\ Returned /\ HasKey(config, "staticFilters")
    /\ Len(TopConditions) = 2
    /\ Len(Survivors(TopConditions)) = 1
    /\ "$and" \notin DOMAIN result.value.m
    /\ DOMAIN Survivors(TopConditions)[1].m \subseteq DOMAIN result.value.m
    /\ DOMAIN Survivors(TopConditions)[1].m \cap DOMAIN BeforeConditions = {}

IsEqualityCondition(n) == IsFieldCondition(n) /\ GetProp(n, "operator") = Str("$eq")

\* C7: a field condition with operator $eq on field f whose value resolves
\* to v compiles to exactly {f: v}, never to {f: {$eq: v}}.
C7_EqualityIsBare ==
    Returned =>
        /\ \A n \in AllNodes :
               (IsEqualityCondition(n) /\ ~UnresolvedReference(n)) =>
                   LET f == PropertyKey(GetProp(n, "field"))
                   IN  /\ processCondition(n, data) = Obj([k \in {f} |-> EmittedValue(n)])
                       /\ processCondition(n, data) #
                              Obj([k \in {f} |-> Obj([o \in {"$eq"} |-> EmittedValue(n)])])
        /\ (OnlyConditions /\ Len(TopConditions) = 1 /\ IsEqualityCondition(TopConditions[1])
            /\ ~UnresolvedReference(TopConditions[1])) =>
               result.value =
                   Obj([k \in {PropertyKey(GetProp(TopConditions[1], "field"))} |->
                           EmittedValue(TopConditions[1])])

\* An $eq condition on a reference that resolves to a falsy value was
\* compiled to the bare value.
C7_Witness ==
    /\ Returned /\ OnlyConditions /\ Len(TopConditions) = 1
    /\ IsEqualityCondition(TopConditions[1])
    /\ IsReference(TopConditions[1])
    /\ result.value = Obj([k \in {"a"} |-> Bool(FALSE)])

\* A field condition in the shape of the data model whose operator is
\* neither $eq nor a grouping operator.
IsOtherOperatorCondition(n) ==
    /\ IsFieldCondition(n)
    /\ DOMAIN n.m = {"field", "operator", "value"}
    /\ n.m["field"].t = "str" /\ n.m["field"].s # ""
    /\ n.m["operator"].t = "str" /\ n.m["operator"].s # "$eq"

\* The reference of a field condition reaches an accessor that throws, so
\* the node has no value.
RaisingReference(n) == IsReference(n) /\ IsThrown(Resolved(n))

\* C8: for a field condition whose operator is any string other than $eq
\* and the grouping operators, strings outside the operator vocabulary
\* included, the validator accepts the configuration and the sub-document is
\* exactly {field: {operator: value}}, the operator string unchanged.
C8_OperatorPassesThrough ==
    /\ \A n \in AllNodes :
           IsOtherOperatorCondition(n) =>
               /\ QueryConditionSchema(n)
               /\ (~UnresolvedReference(n) /\ ~RaisingReference(n)) =>
                      processCondition(n, data) =
                          Obj([k \in {n.m["field"].s} |->
                                  Obj([o \in {n.m["operator"].s} |-> EmittedValue(n)])])
    /\ (OnlyConditions /\ Len(TopConditions) >= 1
        /\ \A i \in 1..Len(TopConditions) : IsOtherOperatorCondition(TopConditions[i])) =>
           /\ result.op = "validate" => result.outcome = "ok"
           /\ (result.op = "build"
               /\ \A i \in 1..Len(TopConditions) : ~RaisingReference(TopConditions[i])) =>
                  result.value.t = "obj"
           /\ (result.op = "build" /\ Len(TopConditions) = 1
               /\ ~UnresolvedReference(TopConditions[1])
               /\ ~RaisingReference(TopConditions[1])) =>
                  result.value =
                      Obj([k \in {TopConditions[1].m["field"].s} |->
                              Obj([o \in {TopConditions[1].m["operator"].s} |->
                                      EmittedValue(TopConditions[1])])])

\* A condition with an operator outside the vocabulary was accepted and
\* compiled with the operator string as its key.
C8_Witness ==
    /\ Returned /\ OnlyConditions /\ Len(TopConditions) = 1
    /\ IsOtherOperatorCondition(TopConditions[1])
    /\ TopConditions[1].m["operator"].s = "INVALID_OP"
    /\ result.value = Obj([k \in {"b"} |-> Obj([o \in {"INVALID_OP"} |-> Date(1)])])

\* The value reached by traversing a dotted path segment by segment.
Reached(path) == Traverse(data, Split(path))

\* The values supplied for a bound of a date-range spec: the one found
\* under the spec's field in the data bag and the spec's own.
Supplied(spec, which) ==
    LET rangeData == Reached(GetProp(spec, "field").s)
    IN  { IF rangeData \in {Undef, Null} THEN Undef ELSE GetProp(rangeData, which),
          GetProp(spec, which) }

\* A bound is available when a value is supplied for it.
Available(spec, which) == \E v \in Supplied(spec, which) : v \notin {Undef, Null}

OnlyOneDateRange ==
    /\ config.t = "obj" /\ DOMAIN config.m = {"dateRanges"}
    /\ config.m["dateRanges"].t = "arr"
    /\ Len(config.m["dateRanges"].a) = 1

\* C9: for a date-range spec on field f the output is {f: {$gte: from}}
\* when only a from bound is available, {f: {$lte: to}} when only a to
\* bound is, {f: {$gte: from, $lte: to}} when both are, and has no key f
\* when neither is.
C9_DateRangePartiality ==
    (Returned /\ OnlyOneDateRange) =>
        LET spec == config.m["dateRanges"].a[1]
            f == GetProp(spec, "field").s
            keys == {k \in {"$gte", "$lte"} :
                        Available(spec, IF k = "$gte" THEN "from" ELSE "to")}
        IN  IF keys = {} THEN result.value = EmptyObj
            ELSE /\ DOMAIN result.value.m = {f}
                 /\ result.value.m[f].t = "obj"
                 /\ DOMAIN result.value.m[f].m = keys
                 /\ \A k \in keys :
                        result.value.m[f].m[k] \in
                            Supplied(spec, IF k = "$gte" THEN "from" ELSE "to")

FieldMappings == IF HasKey(config, "fieldMappings") THEN config.m["fieldMappings"].m ELSE EmptyMap

\* C10 as stated: the output contains outputKey with the resolved value if
\* and only if the traversal of dataPath reaches a value that is neither
\* undefined nor null; otherwise outputKey is absent from the output.
C10_MappedIffResolved ==
    Returned =>
        \A k \in DOMAIN FieldMappings :
            LET v == Reached(FieldMappings[k].s)
            IN  IF v \in {Undef, Null} THEN k \notin DOMAIN result.value.m
                ELSE k \in DOMAIN result.value.m /\ result.value.m[k] = v

\* The output of the configuration without its mapping for k.
WithoutMapping(k) ==
    build(With(config, "fieldMappings", Without(config.m["fieldMappings"], k)), data)

\* What the path of a mapping resolves to: getNestedValue returns undefined
\* for an empty path before any traversal, whatever the data bag holds
\* under the key ''.
MappedFrom(path) == IF path = "" THEN Undef ELSE Reached(path)

\* C10, amended: for every field mapping (outputKey, dataPath) whose
\* outputKey no other part of the configuration writes, the output contains
\* outputKey if and only if dataPath is not empty and its traversal reaches
\* a value that is neither undefined nor null, and then with exactly that
\* value (0, false and '' are copied); the rest of the output is what it is
\* without the mapping; and a mapping raises no error unless its traversal
\* reads an accessor that throws.
C10_MappedIffResolvedWhenUnshared ==
    /\ Returned =>
           \A k \in DOMAIN FieldMappings :
               LET v == MappedFrom(FieldMappings[k].s)
                   rest == WithoutMapping(k)
               IN  /\ rest.t = "obj"
                   /\ k \notin DOMAIN rest.m =>
                          /\ k \in DOMAIN result.value.m <=> v \notin {Undef, Null}
                          /\ k \in DOMAIN result.value.m => result.value.m[k] = v
                          /\ \A x \in DOMAIN result.value.m \ {k} :
                                 x \in DOMAIN rest.m /\ result.value.m[x] = rest.m[x]
                          /\ DOMAIN rest.m \subseteq DOMAIN result.value.m
    /\ (Built /\ Accepted) =>
           \A k \in DOMAIN FieldMappings :
               (WithoutMapping(k).t = "obj" /\ ~IsThrown(MappedFrom(FieldMappings[k].s)))
                   => result.value.t = "obj"

\* A mapping whose key nothing else writes copied a falsy value, beside a
\* mapping whose traversal reached nothing and one with an empty path, for
\* which the data bag has a value under the key '': neither left a key.
C10_Witness ==
    /\ Returned
    /\ \E k \in DOMAIN FieldMappings :
           /\ MappedFrom(FieldMappings[k].s) \in {Num(0), Bool(FALSE), Str("")}
           /\ k \notin DOMAIN WithoutMapping(k).m
           /\ result.value.m[k] = MappedFrom(FieldMappings[k].s)
    /\ \E k \in DOMAIN FieldMappings :
           /\ FieldMappings[k].s # ""
           /\ Reached(FieldMappings[k].s) \in {Undef, Null}
           /\ k \notin DOMAIN result.value.m
    /\ \E k \in DOMAIN FieldMappings :
           /\ FieldMappings[k].s = ""
           /\ Reached("") \notin {Undef, Null}
           /\ k \notin DOMAIN result.value.m

\* C11: build never mutates its inputs: after any call build(config, data),
\* whether it returns or throws, the configuration (its static filters,
\* field mappings, date ranges and every node of the conditions tree) and
\* the data bag equal their values before the call.
C11_InputsUnchanged ==
    [][(result.op = "none" /\ result'.op = "build") =>
           (config' = config /\ data' = data)]_vars

\* A call with static filters wrote the keys of a later stage into the
\* query, and another call threw after the first stages had written.
C11_Witness ==
    /\ Built
    /\ HasKey(config, "staticFilters")
    /\ \/ Returned /\ result.value # config.m["staticFilters"]
       \/ result.value = Thrown("TypeError")

\* C12: build is deterministic and keeps no state between calls: two calls
\* with the same configuration and data bag, with any other calls in
\* between, return equal filter documents (or throw the same error).
C12_SameCallSameDocument ==
    \A i \in 1..Len(calls) : \A j \in 1..Len(calls) :
        (calls[i].config = calls[j].config /\ calls[i].data = calls[j].data) =>
            calls[i].value = calls[j].value

\* The same configuration and data bag were compiled twice to a document
\* with keys, with a call in between that returned a different one.
C12_Witness ==
    /\ Len(calls) = 3
    /\ calls[1].config = calls[3].config /\ calls[1].data = calls[3].data
    /\ calls[3].value.t = "obj" /\ calls[3].value # EmptyObj
    /\ calls[2].value.t = "obj" /\ calls[2].value # calls[1].value
    /\ DOMAIN calls[2].value.m \ DOMAIN calls[1].value.m # {}

Validated == result.op = "validate"

\* A node with a grouping operator and an empty conditions list.
IsEmptyGroup(n) ==
    /\ IsLogicalCondition(n)
    /\ HasKey(n, "conditions")
    /\ n.m["conditions"] = Arr(<<>>)

\* C13: validateConfig rejects every configuration that contains, at any
\* depth of the conditions tree, a node whose operator is $and, $or or $nor
\* and whose conditions list is empty, whatever other keys the node carries.
C13_EmptyGroupRejected ==
    (Validated /\ \E n \in AllNodes : IsEmptyGroup(n)) => result.outcome = "ZodError"

\* The entries of the top-level dateRanges list.
TopDateRanges ==
    IF HasKey(config, "dateRanges") /\ config.m["dateRanges"].t = "arr"
    THEN config.m["dateRanges"].a ELSE <<>>

\* A condition node or a date-range spec has the empty string as field.
HasEmptyField ==
    \/ \E n \in AllNodes : HasKey(n, "field") /\ n.m["field"] = Str("")
    \/ \E i \in 1..Len(TopDateRanges) :
           HasKey(TopDateRanges[i], "field") /\ TopDateRanges[i].m["field"] = Str("")

\* A field condition has the empty string as operator.
HasEmptyOperator ==
    \E n \in AllNodes :
        IsFieldCondition(n) /\ HasKey(n, "operator") /\ n.m["operator"] = Str("")

\* C14: validateConfig rejects every configuration containing a condition
\* node or date-range spec whose field is the empty string, and every
\* configuration containing a field condition whose operator is the empty
\* string.
C14_EmptyStringsRejected ==
    (Validated /\ (HasEmptyField \/ HasEmptyOperator)) => result.outcome = "ZodError"

\* A node with the discriminating key of no variant: no operator key, no
\* from key and no to key.
LacksDiscriminator(n) ==
    n.t = "obj" /\ ~HasKey(n, "operator") /\ ~HasKey(n, "from") /\ ~HasKey(n, "to")

\* C15: validateConfig rejects every configuration whose conditions tree
\* contains a node that has no operator key and neither a from nor a to
\* key, such as {field, value} or a node carrying only field.
C15_UndiscriminatedRejected ==
    (Validated /\ \E n \in AllNodes : LacksDiscriminator(n)) => result.outcome = "ZodError"

\* C16: build validates the configuration before doing any work: for every
\* configuration the schema rejects and every data bag, build throws the
\* validation error and returns no filter document; where the check itself
\* raises, build raises the same and returns no document either.
C16_RejectedNeverBuilt ==
    /\ (Built /\ validateConfig(config) = "ZodError") => result.value = Thrown("ZodError")
    /\ (Built /\ ~QueryConfigSchema(config)) => result.value = Thrown(validateConfig(config))

\* build threw the validation error for a configuration whose only fault
\* is a node without operator, with a data bag that has values.
C16_Witness ==
    /\ Built
    /\ ~QueryConfigSchema(config)
    /\ Len(TopConditions) = 2
    /\ DOMAIN TopConditions[1].m = {"field", "value"}
    /\ QueryConditionSchema(TopConditions[2])
    /\ DOMAIN data.m = {"a", "r"}
    /\ result.value = Thrown("ZodError")

\* The lookup of a buildQuery operation o that has the result of its
\* getConfig: where the name was cached when the call was made, no read
\* was sent and o.got is the cached configuration; otherwise o.held is
\* what the collection held under the name when it executed the read.
FoundCached(o) == o.request = NoRequest
Found(o) == IF FoundCached(o) THEN o.got ELSE o.held

\* C17 as stated: buildQuery(name, data) throws the "not found" error if and
\* only if neither the cache nor the store holds a configuration named name
\* at the time of the lookup; otherwise it returns exactly
\* QueryBuilder.build(config, data) for the configuration found.
C17_NotFoundIffAbsent ==
    [][\A o \in InPhase({"buildQuery"}, "got") :
           operations' = Finished(o) =>
               /\ result'.value = NotFound(o.arg.s) <=> Found(o) = Null
               /\ Found(o) # Null => result'.value = build(Found(o), o.data)]_vars

\* C17, amended: a buildQuery(name, data) whose read of the store does not
\* fail throws the "not found" error if and only if neither the cache nor
\* the store holds a configuration named name at the time of the lookup,
\* and otherwise returns (or throws) exactly what QueryBuilder.build gives
\* for the configuration found, the cached one first; when name is not
\* cached and the read of the store fails it throws the "Failed to
\* retrieve configuration" error, whether or not the store holds name.
C17_NotFoundIffAbsentOrReadFails ==
    [][\A o \in InPhase({"buildQuery"}, "got") :
           operations' = Finished(o) =>
               IF o.request = "failed"
               THEN result'.value = RetrieveFailed(o.arg.s)
               ELSE /\ result'.value = NotFound(o.arg.s) <=> Found(o) = Null
                    /\ Found(o) # Null =>
                           result'.value = build(Found(o), o.data)]_vars

\* buildQuery compiled the cached configuration without reading the
\* store, whose document of that name compiles to another filter.
C17_Witness ==
    /\ result.op = "buildQuery"
    /\ result.request = NoRequest
    /\ result.name \in DOMAIN cache /\ result.name \in DOMAIN store
    /\ result.value.t = "obj"
    /\ result.value = build(Cached(result.name), result.data)
    /\ result.value # build(store[result.name], result.data)

\* C18: a saveConfig call that fails leaves the manager's state as it was:
\* when the configuration has no name or is rejected by the schema, no
\* write to the store is attempted and the cache is unchanged; when the
\* write to the store fails, saveConfig raises an error and the cache is
\* unchanged.  A saveConfig that completes at once has thrown for one of
\* the two reasons and changed nothing; a write is only ever in progress
\* for a configuration that has a name and that the schema accepts; a
\* saveConfig that resumes throws exactly when its write failed, and then
\* its last step leaves the cache as it is, which is as it was when the
\* call was made if no other call was made in between.
C18_FailedSaveChangesNothing ==
    [][/\ (operations'.pending = Overlapped /\ result'.op = "saveConfig") =>
              /\ \/ ~Truthy(GetProp(result'.config, "name"))
                 \/ ~QueryConfigSchema(result'.config)
              /\ IsThrown(result'.value)
              /\ store' = store /\ cache' = cache /\ CacheContent' = CacheContent
       /\ \A o \in DOMAIN operations'.pending :
              o.op = "saveConfig" =>
                  Truthy(GetProp(o.arg, "name")) /\ QueryConfigSchema(o.arg)
       /\ \A o \in InPhase({"saveConfig"}, "answered") :
              operations' = Finished(o) =>
                  /\ IsThrown(result'.value) <=> o.request = "failed"
                  /\ o.request = "failed" =>
                         /\ cache' = cache /\ CacheContent' = CacheContent
                         /\ o.alone => CacheContent' = o.before]_vars

\* C19: for every date-range spec d the validator accepts, with or without
\* from/to keys, and every data bag, compiling {conditions: [d]} and
\* compiling {dateRanges: [d]} yield equal filter documents.
C19_DateRangeNodeAsEntry ==
    (Built /\ OnlyConditions /\ Len(TopConditions) = 1
     /\ DateRangeConditionSchema(TopConditions[1])) =>
        result.value = build(Config(Undef, Undef, Arr(<<TopConditions[1]>>), Undef), data)

\* The node n with only the keys given.
Only(n, keys) == IF n.t = "obj" THEN Obj([k \in DOMAIN n.m \cap keys |-> n.m[k]]) ELSE n

\* What the builder of its variant makes of a node, the keys of the other
\* variants set aside; the range data of a date-range node is looked up
\* before its builder is called, and the lookup may throw.
ByVariant(n) ==
    IF IsLogicalCondition(n)
    THEN buildLogicalCondition(Only(n, {"operator", "conditions"}), data)
    ELSE IF HasKey(n, "from") \/ HasKey(n, "to")
    THEN LET rangeData == getNestedValue(data, GetProp(n, "field"))
         IN  IF IsThrown(rangeData) THEN rangeData
             ELSE buildDateRange(Only(n, {"field", "from", "to"}), rangeData)
    ELSE buildFieldCondition(n, data)

\* C20: every condition node is handled by exactly one builder, chosen in
\* a fixed order: a node whose operator is $and, $or or $nor is a logical
\* condition even if it carries field, value, from or to; otherwise a node
\* with a from or to key is a date-range condition, its operator and value
\* ignored; otherwise it is a field condition.
C20_OneBuilderInOrder ==
    Built =>
        /\ \A n \in AllNodes : ~IsPrimitive(n) => processCondition(n, data) = ByVariant(n)
        /\ (Returned /\ OnlyConditions /\ Len(TopConditions) = 1) =>
               result.value = IF ByVariant(TopConditions[1]) = Null THEN EmptyObj
                              ELSE ByVariant(TopConditions[1])

\* A node with a grouping operator and a to key was compiled as a group,
\* the to key ignored.
C20_Witness ==
    /\ Returned /\ OnlyConditions /\ Len(TopConditions) = 1
    /\ IsLogicalCondition(TopConditions[1])
    /\ HasKey(TopConditions[1], "to")
    /\ DOMAIN result.value.m = {"$or"}

-----------------------------------------------------------------------------
(* Date-range bounds                                                       *)

\* The bound a date-range spec is to emit: the value the data bag holds
\* under the spec's field, unless that is undefined or null, and the
\* spec's own otherwise.
Preferred(spec, which) ==
    LET rangeData == Reached(GetProp(spec, "field").s)
        supplied == IF rangeData \in {Undef, Null} THEN Undef
                    ELSE GetProp(rangeData, which)
    IN  IF supplied \notin {Undef, Null} THEN supplied ELSE GetProp(spec, which)

\* The bound emitted under f, Undef when there is none.
EmittedBound(f, k) ==
    IF result.value.t = "obj" /\ f \in DOMAIN result.value.m
       /\ result.value.m[f].t = "obj" /\ k \in DOMAIN result.value.m[f].m
    THEN result.value.m[f].m[k]
    ELSE Undef

\* C21: each bound of a date range is resolved on its own: an emitted
\* $gte (resp. $lte) is the from (resp. to) the data bag supplies under
\* the spec's field whenever that is neither undefined nor null, 0 and ''
\* included, and the spec's own from (resp. to) otherwise.
C21_DataBoundTakesPriority ==
    (Returned /\ OnlyOneDateRange) =>
        LET spec == config.m["dateRanges"].a[1]
            f == GetProp(spec, "field").s
        IN  /\ EmittedBound(f, "$gte") \in {Undef, Preferred(spec, "from")}
            /\ EmittedBound(f, "$lte") \in {Undef, Preferred(spec, "to")}

\* The configuration is one date-range node, as its only condition.
OnlyOneDateRangeNode ==
    /\ OnlyConditions
    /\ Len(TopConditions) = 1
    /\ IsDateRangeCondition(TopConditions[1])

\* A bound of a date-range spec is a reference: a '$'-prefixed string.
IsReferenceBound(spec, which) ==
    GetProp(spec, which).t = "str" /\ Len(GetProp(spec, which).s) >= 1
    /\ Head(GetProp(spec, which).s) = "$"

\* What a reference bound resolves to in the data bag.
ResolvedBound(spec, which) ==
    getNestedValue(data, Str(Tail(GetProp(spec, which).s)))

\* The data bag holds no bound of its own under the spec's field.
NothingSupplied(spec, which) ==
    LET rangeData == Reached(GetProp(spec, "field").s)
    IN  rangeData \in {Undef, Null} \/ GetProp(rangeData, which) \in {Undef, Null}

\* C22: when the from or to of a date-range spec is a '$'-prefixed
\* reference, the emitted $gte/$lte bound is the value the path resolves to
\* in the data bag, the bound is absent when that value is undefined or
\* null, and the reference string itself is never emitted.
C22_ReferenceBoundResolved ==
    (Returned /\ OnlyOneDateRangeNode) =>
        LET spec == TopConditions[1]
            f == GetProp(spec, "field").s
        IN  \A which \in {"from", "to"} :
                (IsReferenceBound(spec, which) /\ NothingSupplied(spec, which)) =>
                    LET emitted == EmittedBound(f, IF which = "from" THEN "$gte" ELSE "$lte")
                    IN  /\ emitted # GetProp(spec, which)
                        /\ emitted = IF ResolvedBound(spec, which) \in {Undef, Null}
                                     THEN Undef ELSE ResolvedBound(spec, which)

-----------------------------------------------------------------------------
(* The order and the content of the emitted arrays                         *)

\* The sub-document of a node, Null when the node is omitted.
SubDocument(n) == processCondition(n, data)

\* The positions of a list of nodes whose sub-documents an array keeps:
\* those that are not null (andConditions), and for the array of a group
\* those that have a key as well (builtConditions).
Kept(nodes, inGroup) ==
    { p \in 1..Len(nodes) :
        /\ SubDocument(nodes[p]) \notin {Null, Undef}
        /\ inGroup => SubDocument(nodes[p]) # EmptyObj }

\* arr holds the sub-documents of the kept nodes, one each, and two of them
\* stand in arr as their nodes stand in the list.
InOrder(arr, nodes, inGroup) ==
    \E idx \in [1..Len(arr) -> 1..Len(nodes)] :
        /\ \A i, j \in 1..Len(arr) : i < j => idx[i] < idx[j]
        /\ { idx[i] : i \in 1..Len(arr) } = Kept(nodes, inGroup)
        /\ \A i \in 1..Len(arr) : arr[i] = SubDocument(nodes[idx[i]])

\* The array emitted for a logical node, <<>> when the node emits none of
\* its own (it is omitted, or an $and with one survivor).
ArrayOf(n) ==
    LET doc == SubDocument(n)
        op == PropertyKey(GetProp(n, "operator"))
    IN  IF doc.t = "obj" /\ DOMAIN doc.m = {op} /\ doc.m[op].t = "arr"
           /\ (op = AND => Cardinality(Kept(Children(n), TRUE)) # 1)
        THEN doc.m[op].a
        ELSE <<>>

\* The documents a document holds in its arrays, itself included.
RECURSIVE DocsOf(_)
DocsOf(doc) ==
    {doc} \cup
    IF doc.t = "obj"
    THEN UNION { IF doc.m[k].t = "arr"
                 THEN UNION { DocsOf(doc.m[k].a[i]) : i \in 1..Len(doc.m[k].a) }
                 ELSE {} : k \in DOMAIN doc.m }
    ELSE {}

\* The logical nodes whose sub-document is part of the output.
EmittedGroups ==
    { n \in AllNodes : IsLogicalCondition(n) /\ SubDocument(n) \in DocsOf(result.value) }

\* C23: the arrays emitted under $and, $or and $nor, at the top level and
\* at every depth, hold the sub-documents of the surviving children in the
\* order of their nodes in the configuration; an omitted child does not
\* reorder the others.
C23_ArraysKeepOrder ==
    (Returned /\ OnlyConditions) =>
        /\ Cardinality(Kept(TopConditions, FALSE)) > 1 =>
               /\ DOMAIN result.value.m = {"$and"}
               /\ result.value.m["$and"].t = "arr"
               /\ InOrder(result.value.m["$and"].a, TopConditions, FALSE)
        /\ \A n \in EmittedGroups :
               ArrayOf(n) # <<>> => InOrder(ArrayOf(n), Children(n), TRUE)

\* A group of a group lost its middle child, and its array holds the first
\* and the third child's sub-documents, which differ, in that order.
C23_Witness ==
    /\ Returned /\ OnlyConditions
    /\ \E n \in EmittedGroups :
           /\ n \notin { TopConditions[i] : i \in 1..Len(TopConditions) }
           /\ Len(Children(n)) = 3
           /\ Kept(Children(n), TRUE) = {1, 3}
           /\ ArrayOf(n) = <<SubDocument(Children(n)[1]), SubDocument(Children(n)[3])>>
           /\ SubDocument(Children(n)[1]) # SubDocument(Children(n)[3])

-----------------------------------------------------------------------------
(* The manager: reads after writes, and the cache                          *)

StageKeys == {"staticFilters", "fieldMappings", "dateRanges", "conditions"}

\* The stages of a configuration: what the compiler reads of it.
Stages(c) == [k \in DOMAIN c.m \cap StageKeys |-> c.m[k]]

\* getConfig has just returned, a configuration or null.
GotConfig == AllDone /\ result.op = "getConfig" /\ ~IsThrown(result.value)

\* C24: in a sequential history of manager operations, with caching on or
\* off, a getConfig(n) that follows a completed saveConfig(c) with
\* c.name = n and no later save or delete of n returns a configuration
\* whose stages are exactly those of c, a stage c lacks being absent even
\* if an earlier version under n had it; a getConfig(n) that follows a
\* completed deleteConfig(n) and no later save of n returns null.
C24_ReadYourWrites ==
    (GotConfig /\ result.name \in DOMAIN written) =>
        IF written[result.name] = Null THEN result.value = Null
        ELSE /\ result.value.t = "obj"
             /\ Stages(result.value) = Stages(written[result.name])

\* The step completes a preloadCache that read the collection and that no
\* other operation overlapped.
PreloadsAlone ==
    \E o \in InPhase({"preloadCache"}, "answered") :
        /\ Ok(o) /\ o.alone
        /\ operations' = Finished(o)

\* C25: with caching enabled, a preloadCache that no other operation
\* overlaps and that reads the store leaves the cache with exactly one
\* entry for each configuration in the store, under its name, and none for
\* a name that is not in the store: entries cached for configurations
\* removed since are dropped; with caching disabled preloadCache leaves
\* the cache empty.
C25_PreloadMirrorsStore ==
    [][/\ PreloadsAlone =>
              /\ DOMAIN cache' = { store'[k].m["name"].s : k \in DOMAIN store' }
              /\ \A k \in DOMAIN store' : CacheContent'[store'[k].m["name"].s] = store'[k]
       /\ (result'.op = "preloadCache" /\ ~cacheEnabled) => cache' = NoConfigs]_vars

\* A preloadCache that ran alone found an entry cached for a configuration
\* that is no longer in the store, dropped it, and left the cache with the
\* configuration the store holds.
C25_Witness ==
    /\ cacheEnabled /\ AllDone
    /\ result.op = "preloadCache" /\ result.request = "ok" /\ result.alone
    /\ \E n \in result.cachedBefore : n \notin DOMAIN store /\ n \notin DOMAIN cache
    /\ store # NoConfigs
    /\ CacheContent = store

\* preloadCache has just completed and its read of the collection failed.
PreloadFailed == result.op = "preloadCache" /\ result.request = "failed"

\* C26: when the read of the collection that preloadCache makes fails,
\* preloadCache completes without raising an error to its caller and the
\* cache holds exactly what it held before the call: it is not cleared.
\* The last step of such a preloadCache leaves the cache as it is, which
\* is as it was when the call was made if no other call was made in
\* between.
C26_FailedPreloadKeepsCache ==
    [][\A o \in InPhase({"preloadCache"}, "answered") :
           (operations' = Finished(o) /\ o.request = "failed") =>
               /\ ~IsThrown(result'.value)
               /\ cache' = cache /\ CacheContent' = CacheContent
               /\ o.alone => CacheContent' = o.before]_vars

\* A failed preloadCache that ran alone returned with entries still in the
\* cache.
C26_Witness ==
    /\ PreloadFailed /\ result.alone
    /\ result.value = Undef
    /\ cache # NoConfigs

\* C27: in every interleaving of overlapping manager operations, once all
\* the operations issued have completed the cache holds no stale entry:
\* every name in the cache is in the store, with the same configuration.
C27_NoStaleEntryWhenIdle ==
    AllDone =>
        \A n \in DOMAIN cache : n \in DOMAIN store /\ Cached(n) = store[n]

\* What a manager without a cache gets for a name from the same store.
Uncached(name) == findOne(store, name)

\* getConfig or buildQuery has just completed in a manager with a cache,
\* and not with a failed read.
Looked ==
    /\ cacheEnabled /\ AllDone
    /\ result.op \in {"getConfig", "buildQuery"}
    /\ result.value # RetrieveFailed(result.name)

\* C28: the cache is transparent: over every sequential history of
\* saveConfig, getConfig, deleteConfig, clearCache, preloadCache and
\* buildQuery calls, a manager with caching on returns from getConfig a
\* configuration with the same stages, and from buildQuery the same
\* result, as a manager with caching off over the same store.
C28_CacheTransparent ==
    Looked =>
        IF result.op = "getConfig"
        THEN IF Uncached(result.name) = Null THEN result.value = Null
             ELSE /\ result.value.t = "obj"
                  /\ Stages(result.value) = Stages(Uncached(result.name))
        ELSE result.value = IF Uncached(result.name) = Null THEN NotFound(result.name)
                            ELSE build(Uncached(result.name), result.data)

\* The arrays a document has under $and, $or and $nor, here and below,
\* have the sizes the compiler gives them and hold no empty document.
RECURSIVE WellSized(_)
WellSized(doc) ==
    doc.t = "obj" =>
        \A k \in DOMAIN doc.m \cap {"$and", "$or", "$nor"} :
            doc.m[k].t = "arr" =>
                /\ Len(doc.m[k].a) >= (IF k = "$and" THEN 2 ELSE 1)
                /\ \A i \in 1..Len(doc.m[k].a) :
                       /\ doc.m[k].a[i] # EmptyObj
                       /\ WellSized(doc.m[k].a[i])

\* C29: in every filter document produced from a conditions tree, at
\* every depth, each $and array has at least two elements, each $or and
\* $nor array has at least one, and no element of such an array is an
\* empty document.
C29_ArraySizes == (Returned /\ OnlyConditions) => WellSized(result.value)

\* An $and with one survivor inside an $or beside a survivor, under a
\* top-level $and of two: the inner $and left no array of one element.
C29_Witness ==
    /\ Returned /\ OnlyConditions
    /\ "$and" \in DOMAIN result.value.m
    /\ \E n \in AllNodes :
           /\ GetProp(n, "operator") = Str(AND)
           /\ Len(Children(n)) = 2
           /\ Cardinality(Kept(Children(n), TRUE)) = 1
           /\ \E m \in EmittedGroups :
                  /\ GetProp(m, "operator") \in {Str(OR), Str(NOR)}
                  /\ \E i \in 1..Len(Children(m)) : Children(m)[i] = n
                  /\ Len(ArrayOf(m)) = 2

\* A document is the array of a group: one key, $and, $or or $nor, over
\* an array.
IsGroupDocument(doc) ==
    /\ doc.t = "obj"
    /\ \E k \in {"$and", "$or", "$nor"} : DOMAIN doc.m = {k} /\ doc.m[k].t = "arr"

\* The sequences of a sequence of sequences, one after the other.
RECURSIVE Flatten(_)
Flatten(seqs) == IF seqs = <<>> THEN <<>> ELSE Head(seqs) \o Flatten(Tail(seqs))

\* The leaf sub-documents of a document, in order.
RECURSIVE LeafDocuments(_)
LeafDocuments(doc) ==
    IF doc = EmptyObj THEN <<>>
    ELSE IF IsGroupDocument(doc)
    THEN LET arr == doc.m[CHOOSE k \in DOMAIN doc.m : TRUE].a
         IN  Flatten([i \in 1..Len(arr) |-> LeafDocuments(arr[i])])
    ELSE <<doc>>

\* The sub-documents of the Field and Date-Range nodes of a list that
\* survive, at every depth, in order.
RECURSIVE SurvivingLeaves(_)
SurvivingLeaves(nodes) ==
    Flatten([i \in 1..Len(nodes) |->
                IF IsLogicalCondition(nodes[i]) THEN SurvivingLeaves(Children(nodes[i]))
                ELSE IF SubDocument(nodes[i]) \in {Null, Undef} THEN <<>>
                ELSE <<SubDocument(nodes[i])>>])

\* A group with two or more surviving children that is one of the nodes
\* of an emitted array stands in that array as an array of its own.
NestedKept(nodes, arr) ==
    \A i \in 1..Len(nodes) :
        LET c == nodes[i]
        IN  (IsLogicalCondition(c) /\ Cardinality(Kept(Children(c), TRUE)) >= 2) =>
                /\ IsGroupDocument(SubDocument(c))
                /\ DOMAIN SubDocument(c).m = {PropertyKey(GetProp(c, "operator"))}
                /\ Len(ArrayOf(c)) = Cardinality(Kept(Children(c), TRUE))
                /\ \E j \in 1..Len(arr) : arr[j] = SubDocument(c)

\* C30: no surviving condition is lost or merged inside the conditions
\* tree: the document of a conditions list holds exactly one leaf
\* sub-document for each surviving Field or Date-Range node, so that two
\* surviving conditions on one field are two elements of an array, and a
\* group of several surviving children nested in a group, or beside other
\* survivors in the top-level list, is kept as an array of its own, not
\* spliced into its parent.
C30_NoConditionLostOrMerged ==
    (Returned /\ OnlyConditions) =>
        /\ LeafDocuments(result.value) = SurvivingLeaves(TopConditions)
        /\ Cardinality(Kept(TopConditions, FALSE)) > 1 =>
               /\ IsGroupDocument(result.value)
               /\ NestedKept(TopConditions, result.value.m["$and"].a)
        /\ \A m \in EmittedGroups :
               ArrayOf(m) # <<>> => NestedKept(Children(m), ArrayOf(m))

\* Two conditions on one field survived in an $and nested in another
\* group, and stand there as two elements of the nested $and array.
C30_Witness ==
    /\ Returned /\ OnlyConditions
    /\ \E m \in EmittedGroups :
           /\ ArrayOf(m) # <<>>
           /\ \E i \in 1..Len(Children(m)) :
                  LET c == Children(m)[i]
                  IN  /\ GetProp(c, "operator") = Str(AND)
                      /\ Len(ArrayOf(c)) = 2
                      /\ ArrayOf(c)[1] # ArrayOf(c)[2]
                      /\ ArrayOf(c)[1].t = "obj" /\ ArrayOf(c)[2].t = "obj"
                      /\ DOMAIN ArrayOf(c)[1].m = DOMAIN ArrayOf(c)[2].m
                      /\ ~IsGroupDocument(ArrayOf(c)[1])
                      /\ \E j \in 1..Len(ArrayOf(m)) : ArrayOf(m)[j] = SubDocument(c)
                      /\ Len(LeafDocuments(result.value)) >= 3

====
